---------------------------- MODULE Spec2Model ----------------------------
(***************************************************************************)
(* A model of the JMatrix build-support scripts:                           *)
(*   - scripts/retriever.py        the on-disk POM cache (setup / main)    *)
(*   - tools/JMBuilder/.../core.py JMRepairer (fix_properties/fix_manifest)*)
(*   - src/main/python/fix_config.py  FixConfig                            *)
(*   - src/python/fix_version.py   fix_version                             *)
(* Python strings that the code inspects character by character are        *)
(* sequences of one-character strings; None is the value None.             *)
(***************************************************************************)
EXTENDS Integers, Sequences, FiniteSets, TLC

(***************************************************************************)
(* Bounds of the model.                                                    *)
(***************************************************************************)
\* number of distinct contents pom.xml can have
NumDescriptors == 2
\* number of times another process rewrites pom.xml
MaxEdits == 2
\* lines of a template file
MaxEntries == 2
\* calls of a rewriting function on one file, runs of a program
MaxRuns == 2
\* elements of a config.xml template
MaxElements == 2
\* characters of an identifier given to the placeholder patterns
MaxIdentLen == 2
\* seconds the clock advances while JMRepairer objects are built
MaxClock == 2
\* lines of a list given to remove_comments or remove_blanks
MaxLines == 3

(***************************************************************************)
(* Python values shared by all parts.                                      *)
(***************************************************************************)
\* Python's None (no str has this form: a str is a sequence of characters)
None == << "None" >>
\* a path at which no file exists; an existing file is {content}
NoFile == {}
\* the content of an existing file
Content(f) == CHOOSE c \in f : TRUE
\* Python's '' (the empty str)
EmptyStr == << >>

(***************************************************************************)
(* Characters: code points as Python's ord() gives them.                   *)
(***************************************************************************)
LowerCase == << "a", "b", "c", "d", "e", "f", "g", "h", "i", "j", "k", "l",
                "m", "n", "o", "p", "q", "r", "s", "t", "u", "v", "w", "x",
                "y", "z" >>
UpperCase == << "A", "B", "C", "D", "E", "F", "G", "H", "I", "J", "K", "L",
                "M", "N", "O", "P", "Q", "R", "S", "T", "U", "V", "W", "X",
                "Y", "Z" >>
Digits == << "0", "1", "2", "3", "4", "5", "6", "7", "8", "9" >>

Range(f) == { f[i] : i \in DOMAIN f }
IndexOf(f, c) == CHOOSE i \in DOMAIN f : f[i] = c

\* ord(c), computed
OrdOf(c) ==
    IF c \in Range(LowerCase) THEN 96 + IndexOf(LowerCase, c)
    ELSE IF c \in Range(UpperCase) THEN 64 + IndexOf(UpperCase, c)
    ELSE IF c \in Range(Digits) THEN 47 + IndexOf(Digits, c)
    ELSE CASE c = "\n" -> 10 [] c = " " -> 32 [] c = "#" -> 35 [] c = "$" -> 36
           [] c = "-" -> 45 [] c = "." -> 46 [] c = "/" -> 47
           [] c = ":" -> 58 [] c = "<" -> 60 [] c = "=" -> 61
           [] c = ">" -> 62 [] c = "@" -> 64 [] c = "[" -> 91
           [] c = "]" -> 93 [] c = "_" -> 95 [] c = "{" -> 123
           [] c = "}" -> 125 [] c = "|" -> 124 [] c = "?" -> 63
           [] c = ";" -> 59 [] c = "\"" -> 34 [] c = "'" -> 39

\* the characters of the model
Chars == Range(LowerCase) \cup Range(UpperCase) \cup Range(Digits)
         \cup { "\n", " ", "#", "$", "-", ".", "/", ":", "<", "=", ">", "@", "[",
                "]", "_", "{", "}", "|", "?", ";", "\"", "'" }

\* ord as a table
OrdTable == [ c \in Chars |-> OrdOf(c) ]

\* ord(c)
Ord(c) == OrdTable[c]

\* a < b for two str (Python compares code point by code point)
RECURSIVE StrLess(_, _)
StrLess(a, b) ==
    IF b = << >> THEN FALSE
    ELSE IF a = << >> THEN TRUE
    ELSE IF Ord(Head(a)) # Ord(Head(b)) THEN Ord(Head(a)) < Ord(Head(b))
    ELSE StrLess(Tail(a), Tail(b))

(***************************************************************************)
(* Python str operations, on sequences of characters.                      *)
(***************************************************************************)
\* c.isspace()
IsSpace(c) == c \in { " ", "\n" }

\* str.lstrip()
RECURSIVE lstrip(_)
lstrip(str) ==
    IF str # << >> /\ IsSpace(Head(str)) THEN lstrip(Tail(str)) ELSE str

\* str.rstrip()
RECURSIVE rstrip(_)
rstrip(str) ==
    IF str # << >> /\ IsSpace(str[Len(str)])
    THEN rstrip(SubSeq(str, 1, Len(str) - 1))
    ELSE str

\* str.strip()
strip(str) == rstrip(lstrip(str))

\* str.startswith(prefix)
startswith(str, prefix) ==
    Len(str) >= Len(prefix) /\ SubSeq(str, 1, Len(prefix)) = prefix

\* the positions of character c in str
Positions(str, c) == { i \in 1 .. Len(str) : str[i] = c }

\* the least element of a non-empty set of numbers
Least(S) == CHOOSE i \in S : \A j \in S : i <= j

\* str.split(delim, maxsplit=1) for a one-character delim
split1(str, delim) ==
    IF Positions(str, delim) = {} THEN << str >>
    ELSE LET i == Least(Positions(str, delim))
         IN  << SubSeq(str, 1, i - 1), SubSeq(str, i + 1, Len(str)) >>

\* str.split(): the maximal runs of non-space characters
RECURSIVE split(_)
split(str) ==
    LET rest == lstrip(str)
        stops == { i \in 1 .. Len(rest) : IsSpace(rest[i]) }
        n == IF stops = {} THEN Len(rest) ELSE Least(stops) - 1
    IN  IF rest = << >> THEN << >>
        ELSE << SubSeq(rest, 1, n) >> \o split(SubSeq(rest, n + 1, Len(rest)))

\* sep.join(parts)
RECURSIVE join(_, _)
join(sep, parts) ==
    IF parts = << >> THEN << >>
    ELSE IF Len(parts) = 1 THEN parts[1]
    ELSE parts[1] \o sep \o join(sep, Tail(parts))

\* c.lower() and c.upper() for one character, as tables
LowerTable ==
    [ c \in Chars |->
        IF c \in Range(UpperCase) THEN LowerCase[IndexOf(UpperCase, c)] ELSE c ]
UpperTable ==
    [ c \in Chars |->
        IF c \in Range(LowerCase) THEN UpperCase[IndexOf(LowerCase, c)] ELSE c ]
LowerChar(c) == LowerTable[c]
UpperChar(c) == UpperTable[c]

\* str.lower() and str.upper()
lower(str) == [ i \in 1 .. Len(str) |-> LowerChar(str[i]) ]
upper(str) == [ i \in 1 .. Len(str) |-> UpperChar(str[i]) ]

\* a str literal, as the sequence of its characters
Lit(literal) == [ i \in 1 .. Len(literal) |-> SubSeq(literal, i, i) ]

\* str.split(delim) for a one-character delim
RECURSIVE splitAll(_, _)
splitAll(str, delim) ==
    IF Positions(str, delim) = {} THEN << str >>
    ELSE LET i == Least(Positions(str, delim))
         IN  << SubSeq(str, 1, i - 1) >>
             \o splitAll(SubSeq(str, i + 1, Len(str)), delim)

\* `sub in str` for two str
Contains(str, sub) ==
    \E i \in 1 .. Len(str) + 1 :
        i + Len(sub) - 1 <= Len(str)
        /\ SubSeq(str, i, i + Len(sub) - 1) = sub

\* str(value): the text written for a value; str(None) is 'None'
Str(value) == IF value = None THEN << "N", "o", "n", "e" >> ELSE value

(***************************************************************************)
(* Regular expressions of the placeholder ${identifier}.                   *)
(***************************************************************************)
\* the characters \w matches, among the characters of the model
WordChars ==
    Range(LowerCase) \cup Range(UpperCase) \cup Range(Digits) \cup { "_" }

\* \w
IsWord(c) == c \in WordChars

\* core.py line 308, the class [\w.-\[\]]: \w, the range from '.' to '[',
\* and ']'
RepairerClass ==
    { c \in Chars :
        IsWord(c) \/ (Ord(".") <= Ord(c) /\ Ord(c) <= Ord("[")) \/ c = "]" }

\* membership in the class of core.py line 308
InRepairerClass(c) == c \in RepairerClass

\* the class as the specification writes it, [\w.\-\[\]]: \w . - [ ]
InRepairerClassEscaped(c) == IsWord(c) \/ c \in { ".", "-", "[", "]" }

\* fix_config.py line 474, the class [\w.-]: \w, '.' and '-'
InFixConfigClass(c) == IsWord(c) \/ c \in { ".", "-" }

\* membership in the class named cls
InClass(cls, c) ==
    CASE cls = "repairer" -> InRepairerClass(c)
      [] cls = "fixconfig" -> InFixConfigClass(c)
      [] cls = "escaped" -> InRepairerClassEscaped(c)

\* the length of the longest prefix of str made of characters of the class
RECURSIVE RunLength(_, _)
RunLength(str, cls) ==
    IF str # << >> /\ InClass(cls, Head(str))
    THEN 1 + RunLength(Tail(str), cls)
    ELSE 0

\* re.match of \$\{(<class>+)\} at the start of str: {} for no match, else
\* {group 1}.  No character of the classes is '}', so the run is maximal.
MatchPlaceholder(str, cls) ==
    IF Len(str) >= 4 /\ str[1] = "$" /\ str[2] = "{"
    THEN LET body == SubSeq(str, 3, Len(str))
             n == RunLength(body, cls)
         IN  IF n >= 1 /\ n < Len(body) /\ body[n + 1] = "}"
             THEN { SubSeq(body, 1, n) }
             ELSE {}
    ELSE {}

\* JMRepairer._val_pattern.match(val)
val_pattern_match(val) == MatchPlaceholder(val, "repairer")

(***************************************************************************)
(* Part 1: scripts/retriever.py                                            *)
(***************************************************************************)
VARIABLES
    pom,        \* content of ROOT_DIR/pom.xml (a descriptor)
    edits,      \* how many times pom.xml was rewritten by another process
    dirExists,  \* OUTPUT_DIR is a directory
    sentinel,   \* content of OUTPUT_DIR/.CURRENT_POM, or NoFile
    entries,    \* hash -> content of OUTPUT_DIR/pom-<hash>, or NoFile
    cwd,        \* the working directory of the process: "out" is OUTPUT_DIR
    pc,         \* position of the running retriever process
    ret,        \* where setup() returns to in main
    has_setup,  \* main's local has_setup
    out_file,   \* main's local out_file
    md5_hash,   \* main's local md5_hash
    json_file,  \* main's local json_file: a path [dir, name]
    pom_items,  \* main's local pom_items (loaded JSON)
    s_items,    \* setup's local pom_items
    pom_md5,    \* setup's local pom_md5
    arg,        \* sys.argv[1:] : << >> or <<key>>
    result,     \* what main returned
    obs,        \* history: the sentinel file as line 168 found it
    seenPom,    \* history: <<pom.xml content, edits>> hashed at line 176
    entrySeen,  \* history: os.path.exists(json_file) at line 183
    rebuilds,   \* history: setup() calls made by this run of main
    writes      \* history: cache files written by this run of main

cacheVars == << pom, edits, dirExists, sentinel, entries, cwd, pc, ret,
                has_setup, out_file, md5_hash, json_file, pom_items, s_items,
                pom_md5, arg, result, obs, seenPom, entrySeen, rebuilds,
                writes >>

Descriptors == 1 .. NumDescriptors

\* hashlib.md5(bytes).hexdigest(): one digest per content
md5_get(d) == << "md5", Digits[d + 1] >>

Hashes == { md5_get(d) : d \in Descriptors }

(***************************************************************************)
(* PomParser (core.py).  A parsed document is a tree of elements           *)
(* [name, text, kids]; the soup is the node that holds the root element.   *)
(***************************************************************************)
\* an element with text and no child elements
Leaf(tag, txt) == [ name |-> tag, text |-> txt, kids |-> << >> ]
\* an element with child elements
Elem(tag, children) == [ name |-> tag, text |-> << >>, kids |-> children ]
\* BeautifulSoup(..., 'xml'): the document node
Soup(root) == [ name |-> "[document]", text |-> << >>, kids |-> << root >> ]

\* Tag.find(name) over a list of siblings: the first element with that name
\* in document order, children before later siblings; {} is None
RECURSIVE FindIn(_, _)
FindIn(siblings, tag) ==
    IF siblings = << >> THEN {}
    ELSE IF Head(siblings).name = tag THEN { Head(siblings) }
    ELSE LET below == FindIn(Head(siblings).kids, tag)
         IN  IF below # {} THEN below ELSE FindIn(Tail(siblings), tag)

\* node.find(name), None-safe: {} when node is None
find(node, tag) == IF node = {} THEN {} ELSE FindIn(Content(node).kids, tag)

\* Tag.text: the strings below the element, concatenated
RECURSIVE TagText(_)
TagText(node) ==
    IF node.kids = << >> THEN node.text
    ELSE node.text \o TagText(Head(node.kids))
         \o TagText([ node EXCEPT !.text = << >>, !.kids = Tail(node.kids) ])

\* `element.text if element else element`
TextOrNone(element) == IF element # {} THEN TagText(Content(element)) ELSE None

\* PomParser.__init__: self.project_tag
project_tag(soup) == find({ soup }, "project")

\* the getters on project_tag raise AttributeError when there is no project
PomParser_raises(soup) == project_tag(soup) = {}

\* PomParser.get(keys): successive finds from the soup
RECURSIVE PomParser_get_from(_, _)
PomParser_get_from(node, keys) ==
    IF keys = << >> \/ node = {} THEN node
    ELSE PomParser_get_from(find(node, Head(keys)), Tail(keys))

\* PomParser.get(key)
PomParser_get(soup, keys) ==
    PomParser_get_from(find({ soup }, Head(keys)), Tail(keys))

\* PomParser.get_name
get_name(soup) == TextOrNone(find(project_tag(soup), "name"))
\* PomParser.get_version
get_version(soup) == TextOrNone(find(project_tag(soup), "version"))
\* PomParser.get_id
get_id(soup) ==
    [ groupId |-> TextOrNone(find(project_tag(soup), "groupId")),
      artifactId |-> TextOrNone(find(project_tag(soup), "artifactId")) ]
\* PomParser.get_url
get_url(soup) == TextOrNone(find(project_tag(soup), "url"))
\* PomParser.get_inception_year
get_inception_year(soup) ==
    TextOrNone(find(project_tag(soup), "inceptionYear"))
\* PomParser.get_author
get_author(soup) ==
    [ id |-> TextOrNone(PomParser_get(soup,
                << "project", "developers", "developer", "id" >>)),
      name |-> TextOrNone(PomParser_get(soup,
                << "project", "developers", "developer", "name" >>)),
      url |-> TextOrNone(PomParser_get(soup,
                << "project", "developers", "developer", "url" >>)) ]
\* PomParser.get_license
get_license(soup) ==
    [ name |-> TextOrNone(PomParser_get(soup,
                << "project", "licenses", "license", "name" >>)),
      url |-> TextOrNone(PomParser_get(soup,
                << "project", "licenses", "license", "url" >>)),
      distribution |-> TextOrNone(PomParser_get(soup,
                << "project", "licenses", "license", "distribution" >>)) ]
\* PomParser.get_property(key, dot=False)
get_property(soup, key) ==
    TextOrNone(PomParser_get(soup, << "properties", key >>))

(***************************************************************************)
(* The namespace JMRepairer builds (core.py, JMRepairer.__init__).         *)
(***************************************************************************)
\* the keys of _pom_items, in insertion order
PomKeys == << "project.name", "project.version", "project.url",
              "project.groupId", "project.artifactId",
              "project.inceptionYear", "project.developers[0].name",
              "project.developers[0].url", "project.licenses[0].name",
              "project.licenses[0].url", "package.licenseFile",
              "package.mainClass", "maven.build.timestamp" >>

\* the characters of a key
KeyChars(k) == Lit(k)

\* a timestamp that does not follow the clock
strftime_frozen(now) == << "T", Digits[1], "Z" >>

\* datetime.now(utc).strftime('%Y-%m-%dT%H:%M:%SZ'), for a clock that counts
\* seconds: the text ends in the seconds and 'Z'
strftime(now) == << "T", Digits[now + 1], "Z" >>

\* _pom_items of a JMRepairer built from a parsed POM, at time now
\* (__init__ raises when PomParser_raises(soup))
JMRepairer_init(soup, now) ==
    LET project_id == get_id(soup)
        project_author == get_author(soup)
        project_license == get_license(soup)
    IN  [ k \in Range(PomKeys) |->
            CASE k = "project.name" -> get_name(soup)
              [] k = "project.version" -> get_version(soup)
              [] k = "project.url" -> get_url(soup)
              [] k = "project.groupId" -> project_id.groupId
              [] k = "project.artifactId" -> project_id.artifactId
              [] k = "project.inceptionYear" -> get_inception_year(soup)
              [] k = "project.developers[0].name" -> project_author.name
              [] k = "project.developers[0].url" -> project_author.url
              [] k = "project.licenses[0].name" -> project_license.name
              [] k = "project.licenses[0].url" -> project_license.url
              [] k = "package.licenseFile" ->
                     get_property(soup, "package.licenseFile")
              [] k = "package.mainClass" ->
                     get_property(soup, "package.mainClass")
              [] k = "maven.build.timestamp" -> strftime(now) ]

\* the text of an element of content d: its tag and the number of d
T(tag, d) == << tag, Digits[d + 1] >>

\* pom.xml of content d, parsed; content 2 has no <url>
PomDocument(d) ==
    Soup(Elem("project",
        << Leaf("groupId", T("g", d)), Leaf("artifactId", T("a", d)),
           Leaf("version", T("v", d)), Leaf("name", T("n", d)) >>
        \o (IF d = 2 THEN << >> ELSE << Leaf("url", T("u", d)) >>)
        \o << Leaf("inceptionYear", T("y", d)),
              Elem("licenses", << Elem("license",
                  << Leaf("name", T("l", d)), Leaf("url", T("m", d)) >>) >>),
              Elem("developers", << Elem("developer",
                  << Leaf("id", T("i", d)), Leaf("name", T("d", d)),
                     Leaf("url", T("e", d)) >>) >>),
              Elem("properties",
                  << Leaf("package.licenseFile", T("f", d)),
                     Leaf("package.mainClass", T("c", d)) >>) >>))

\* md5_verify with the comparison dropped
md5_verify_always(orig, d) == TRUE

\* md5_verify(orig, file)
md5_verify(orig, d) == md5_get(d) = orig


(***************************************************************************)
(* json.dumps(obj, sort_keys=True) and json.load: a JSON object file is    *)
(* the sequence of its (key, value) members in the order written.          *)
(***************************************************************************)
\* sorted(keys): the least key first
RECURSIVE SortedKeys(_)
SortedKeys(ks) ==
    IF ks = {} THEN << >>
    ELSE LET least == CHOOSE k \in ks :
                        \A o \in ks \ {k} : StrLess(KeyChars(k), KeyChars(o))
         IN  << least >> \o SortedKeys(ks \ {least})

\* sorted(PomKeys)
SortedPomKeys == SortedKeys(Range(PomKeys))

\* json.dumps(items, sort_keys=True): the keys of items in sorted order,
\* which is the order they have in sorted(PomKeys)
json_dumps(items) ==
    LET ks == SelectSeq(SortedPomKeys, LAMBDA k : k \in DOMAIN items)
    IN  [ i \in 1 .. Len(ks) |-> << ks[i], items[ks[i]] >> ]

\* json.load(file_obj)
json_load(text) ==
    [ k \in { text[i][1] : i \in DOMAIN text } |->
        LET i == CHOOSE j \in DOMAIN text : text[j][1] = k IN text[i][2] ]

\* del d[key]
DictDel(d, key) == [ k \in DOMAIN d \ {key} |-> d[k] ]

\* d.get(key, default)
DictGet(d, key, default) == IF key \in DOMAIN d THEN d[key] ELSE default

(***************************************************************************)
(* jmbuilder/utils/utils.py: remove_comments, remove_blanks, JMProperties. *)
(* A dict is the sequence of its (key, value) items in insertion order.    *)
(***************************************************************************)
\* a filter that drops the lines holding delim anywhere
remove_comments_anywhere(contents, delim) ==
    SelectSeq(contents, LAMBDA line : ~Contains(line, delim))

\* remove_comments(contents, delim), for contents that is not empty
remove_comments(contents, delim) ==
    SelectSeq(contents, LAMBDA line : ~startswith(line, delim))

\* a filter that drops None whatever none is
remove_blanks_drop_none(contents, none) ==
    SelectSeq(contents, LAMBDA line : line # None /\ strip(line) # << >>)

\* remove_blanks(contents, none), for contents that is not empty
remove_blanks(contents, none) ==
    SelectSeq(contents, LAMBDA line :
        (line = None /\ ~none) \/ (line # None /\ strip(line) # << >>))

\* JMProperties.__init__.__blank_remover
blank_remover(contents) == [ i \in DOMAIN contents |-> strip(contents[i]) ]

\* JMProperties.__init__.__line_splitter
line_splitter(contents, delim) ==
    [ i \in DOMAIN contents |-> split1(contents[i], delim) ]

\* d[key] = value on a dict: a new key goes last, a known key keeps its place
DictSet(d, key, value) ==
    IF \E i \in DOMAIN d : d[i][1] = key
    THEN [ i \in DOMAIN d |-> IF d[i][1] = key THEN << key, value >> ELSE d[i] ]
    ELSE Append(d, << key, value >>)

\* dict(zip(keys, values))
RECURSIVE DictOf(_, _)
DictOf(d, pairs) ==
    IF pairs = << >> THEN d
    ELSE DictOf(DictSet(d, Head(pairs)[1], Head(pairs)[2]), Tail(pairs))

\* key in d
HasKey(d, key) == \E i \in DOMAIN d : d[i][1] = key

\* d[key], for a key of d
ItemOf(d, key) == d[CHOOSE i \in DOMAIN d : d[i][1] = key][2]

\* d.get(key, default)
GetOr(d, key, default) == IF HasKey(d, key) THEN ItemOf(d, key) ELSE default

\* the lines JMProperties splits, after comments and blanks are removed
PropertiesData(lines) ==
    LET contents == remove_blanks(
                        remove_comments(blank_remover(lines), << "#" >>), TRUE)
        data == line_splitter(contents, "=")
    IN  IF data # << >> /\ Len(data[1]) = 1
        THEN line_splitter(contents, ":")
        ELSE data

\* JMProperties.__init__ raises: remove_comments or remove_blanks is given
\* an empty list, or zip(*data) does not give two tuples
JMProperties_raises(lines) ==
    \/ lines = << >>
    \/ remove_comments(blank_remover(lines), << "#" >>) = << >>
    \/ \E data \in { PropertiesData(lines) } :
          \/ data = << >>
          \/ \E i \in DOMAIN data : Len(data[i]) # 2

\* JMProperties.__init__: self.data
JMProperties_init(lines) ==
    LET data == PropertiesData(lines)
    IN  DictOf(<< >>, [ i \in DOMAIN data |->
                          << strip(data[i][1]), strip(data[i][2]) >> ])

(***************************************************************************)
(* JMRepairer.fix_properties and fix_manifest (core.py).                   *)
(***************************************************************************)
\* the characters of every key, as a table
KeyCharsTable == [ k \in Range(PomKeys) |-> KeyChars(k) ]

\* the keys of pom_items that have the characters group1
KeysOfChars(items, group1) ==
    { k \in DOMAIN items : KeyCharsTable[k] = group1 }

\* fix_properties, lines 465-472: the value an item is left with
fix_properties_value(items, val) ==
    LET new_val == val_pattern_match(val)
    IN  IF new_val = {} THEN val
        ELSE IF KeysOfChars(items, Content(new_val)) # {}
        THEN items[CHOOSE k \in KeysOfChars(items, Content(new_val)) : TRUE]
        ELSE val

\* fix_manifest, lines 408-418: the value an item is left with
fix_manifest_value(items, key, val) ==
    LET new_val == val_pattern_match(val)
    IN  IF new_val = {} THEN val
        ELSE IF key = << "I", "D" >>
        THEN Str(items["project.groupId"]) \o << ":" >>
             \o Str(items["project.artifactId"])
        ELSE IF KeysOfChars(items, Content(new_val)) # {}
        THEN items[CHOOSE k \in KeysOfChars(items, Content(new_val)) : TRUE]
        ELSE val

\* fix_properties, lines 462-477: the lines written for the lines read
fix_properties_lines(items, lines) ==
    LET properties == JMProperties_init(lines)
    IN  [ i \in DOMAIN properties |->
            properties[i][1] \o << " ", "=", " " >>
            \o Str(fix_properties_value(items, properties[i][2])) ]

\* fix_manifest, lines 405-423: the lines written for the lines read
fix_manifest_lines(items, lines) ==
    LET manifest == JMProperties_init(lines)
    IN  [ i \in DOMAIN manifest |->
            manifest[i][1] \o << ":", " " >>
            \o Str(fix_manifest_value(items, manifest[i][1], manifest[i][2])) ]
        \o << EmptyStr >>

(***************************************************************************)
(* retriever.py: the file system it works on.                              *)
(***************************************************************************)
\* os.path.basename(output_file) for the entry of hash h: 'pom-<h>'
EntryName(h) == << "pom-" >> \o h

\* str.removeprefix('pom-')
removeprefix(name) == IF Head(name) = "pom-" THEN Tail(name) ELSE name

\* the file a path names: a name without directory is resolved in cwd, and
\* only OUTPUT_DIR holds pom-<hash> files
FileAt(path, dir, files) ==
    IF (path.dir = "out" \/ dir = "out")
       /\ Head(path.name) = "pom-" /\ Tail(path.name) \in Hashes
    THEN files[Tail(path.name)]
    ELSE NoFile

\* the keys main is asked for: a key of the cache, the key setup deletes
Args == { << >>, << "project.name" >>, << "project.url" >>,
          << "maven.build.timestamp" >> }

CacheInit ==
    /\ pom \in Descriptors
    /\ edits = 0
    /\ dirExists = FALSE
    /\ sentinel = NoFile
    /\ entries = [ h \in Hashes |-> NoFile ]
    /\ cwd = "out"
    /\ pc = "idle"
    /\ ret = "none"
    /\ has_setup = FALSE
    /\ out_file = None
    /\ md5_hash = EmptyStr
    /\ json_file = [ dir |-> "out", name |-> EmptyStr ]
    /\ pom_items = << >>
    /\ s_items = << >>
    /\ pom_md5 = EmptyStr
    /\ arg = << >>
    /\ result = None
    /\ obs = NoFile
    /\ seenPom = << 0, 0 >>
    /\ entrySeen = FALSE
    /\ rebuilds = 0
    /\ writes = 0

\* the locals of a process that is not running
NoLocals ==
    /\ cwd' = "out"
    /\ ret' = "none"
    /\ has_setup' = FALSE
    /\ out_file' = None
    /\ md5_hash' = EmptyStr
    /\ json_file' = [ dir |-> "out", name |-> EmptyStr ]
    /\ pom_items' = << >>
    /\ s_items' = << >>
    /\ pom_md5' = EmptyStr
    /\ arg' = << >>
    /\ result' = None
    /\ obs' = NoFile
    /\ seenPom' = << 0, 0 >>
    /\ entrySeen' = FALSE
    /\ rebuilds' = 0
    /\ writes' = 0

\* the process is started: python retriever.py [key], from some directory
Start ==
    /\ pc = "idle"
    /\ \E a \in Args, dir \in { "out", "root" } :
         /\ arg' = a
         /\ cwd' = dir
    /\ pc' = "m168"
    /\ UNCHANGED << pom, edits, dirExists, sentinel, entries, ret, has_setup,
                    out_file, md5_hash, json_file, pom_items, s_items,
                    pom_md5, result, obs, seenPom, entrySeen, rebuilds,
                    writes >>

\* the process ends: main returned, or an exception ended it
Exit ==
    /\ pc \in { "done", "failed" }
    /\ pc' = "idle"
    /\ NoLocals
    /\ UNCHANGED << pom, edits, dirExists, sentinel, entries >>

\* main, line 168: no directory or no sentinel -> setup()
Main168 ==
    /\ pc = "m168"
    /\ obs' = IF dirExists THEN sentinel ELSE NoFile
    /\ IF ~(dirExists /\ sentinel # NoFile)
       THEN /\ pc' = "s126"
            /\ ret' = "m170"
            /\ rebuilds' = rebuilds + 1
       ELSE /\ pc' = "m174"
            /\ UNCHANGED << ret, rebuilds >>
    /\ UNCHANGED << pom, edits, dirExists, sentinel, entries, cwd, has_setup,
                    out_file, md5_hash, json_file, pom_items, s_items,
                    pom_md5, arg, result, seenPom, entrySeen, writes >>

\* main, lines 174-175: read the sentinel
Main174 ==
    /\ pc = "m174"
    /\ IF sentinel = NoFile
       THEN pc' = "failed" /\ UNCHANGED md5_hash
       ELSE pc' = "m176" /\ md5_hash' = Content(sentinel)
    /\ UNCHANGED << pom, edits, dirExists, sentinel, entries, cwd, ret,
                    has_setup, out_file, json_file, pom_items, s_items,
                    pom_md5, arg, result, obs, seenPom, entrySeen, rebuilds,
                    writes >>

\* main, lines 176-177: hash pom.xml; on a mismatch setup(), result dropped
Main176 ==
    /\ pc = "m176"
    /\ seenPom' = << pom, edits >>
    /\ IF ~md5_verify(md5_hash, pom)
       THEN /\ pc' = "s126"
            /\ ret' = "m177"
            /\ rebuilds' = rebuilds + 1
       ELSE /\ pc' = "m182"
            /\ UNCHANGED << ret, rebuilds >>
    /\ UNCHANGED << pom, edits, dirExists, sentinel, entries, cwd, has_setup,
                    out_file, md5_hash, json_file, pom_items, s_items,
                    pom_md5, arg, result, obs, entrySeen, writes >>

\* main, line 180: the hash is the name setup returned, prefix removed
Main180 ==
    /\ pc = "m180"
    /\ md5_hash' = removeprefix(out_file)
    /\ pc' = "m182"
    /\ UNCHANGED << pom, edits, dirExists, sentinel, entries, cwd, ret,
                    has_setup, out_file, json_file, pom_items, s_items,
                    pom_md5, arg, result, obs, seenPom, entrySeen, rebuilds,
                    writes >>

\* main, lines 182-184: the entry of md5_hash; if it is missing, setup()
Main182 ==
    /\ pc = "m182"
    /\ LET path == [ dir |-> "out", name |-> EntryName(md5_hash) ]
       IN  /\ json_file' = path
           /\ entrySeen' = (FileAt(path, cwd, entries) # NoFile)
           /\ IF FileAt(path, cwd, entries) = NoFile
              THEN /\ pc' = "s126"
                   /\ ret' = "m184"
                   /\ rebuilds' = rebuilds + 1
              ELSE /\ pc' = "m187"
                   /\ UNCHANGED << ret, rebuilds >>
    /\ UNCHANGED << pom, edits, dirExists, sentinel, entries, cwd, has_setup,
                    out_file, md5_hash, pom_items, s_items, pom_md5, arg,
                    result, obs, seenPom, writes >>

\* main, lines 187-188: open(json_file) and json.load
Main187 ==
    /\ pc = "m187"
    /\ IF FileAt(json_file, cwd, entries) = NoFile
       THEN pc' = "failed" /\ UNCHANGED pom_items
       ELSE /\ pom_items' = json_load(Content(FileAt(json_file, cwd, entries)))
            /\ pc' = "m190"
    /\ UNCHANGED << pom, edits, dirExists, sentinel, entries, cwd, ret,
                    has_setup, out_file, md5_hash, json_file, s_items,
                    pom_md5, arg, result, obs, seenPom, entrySeen, rebuilds,
                    writes >>

\* main, lines 190-194: return the value of the key asked for
Main190 ==
    /\ pc = "m190"
    /\ result' = IF Len(arg) = 0 THEN None
                 ELSE DictGet(pom_items, arg[1], EmptyStr)
    /\ pc' = "done"
    /\ UNCHANGED << pom, edits, dirExists, sentinel, entries, cwd, ret,
                    has_setup, out_file, md5_hash, json_file, pom_items,
                    s_items, pom_md5, arg, obs, seenPom, entrySeen, rebuilds,
                    writes >>

\* setup, lines 126-128: parse pom.xml, drop the timestamp
Setup126 ==
    /\ pc = "s126"
    /\ s_items' = DictDel(JMRepairer_init(PomDocument(pom), 0), "maven.build.timestamp")
    /\ pc' = "s131"
    /\ UNCHANGED << pom, edits, dirExists, sentinel, entries, cwd, ret,
                    has_setup, out_file, md5_hash, json_file, pom_items,
                    pom_md5, arg, result, obs, seenPom, entrySeen, rebuilds,
                    writes >>

\* setup, line 131: os.makedirs(OUTPUT_DIR, exist_ok=True)
Setup131 ==
    /\ pc = "s131"
    /\ dirExists' = TRUE
    /\ pc' = "s134"
    /\ UNCHANGED << pom, edits, sentinel, entries, cwd, ret, has_setup,
                    out_file, md5_hash, json_file, pom_items, s_items,
                    pom_md5, arg, result, obs, seenPom, entrySeen, rebuilds,
                    writes >>

\* setup, line 134: hash pom.xml
Setup134 ==
    /\ pc = "s134"
    /\ pom_md5' = md5_get(pom)
    /\ pc' = "s135"
    /\ UNCHANGED << pom, edits, dirExists, sentinel, entries, cwd, ret,
                    has_setup, out_file, md5_hash, json_file, pom_items,
                    s_items, arg, result, obs, seenPom, entrySeen, rebuilds,
                    writes >>

\* setup, line 135: write_checkpoint(pom_md5)
Setup135 ==
    /\ pc = "s135"
    /\ sentinel' = { pom_md5 }
    /\ writes' = writes + 1
    /\ pc' = "s141"
    /\ UNCHANGED << pom, edits, dirExists, entries, cwd, ret, has_setup,
                    out_file, md5_hash, json_file, pom_items, s_items,
                    pom_md5, arg, result, obs, seenPom, entrySeen, rebuilds >>

\* setup, lines 138-142: write the entry pom-<pom_md5>
Setup141 ==
    /\ pc = "s141"
    /\ entries' = [ entries EXCEPT ![pom_md5] = { json_dumps(s_items) } ]
    /\ writes' = writes + 1
    /\ pc' = "s144"
    /\ UNCHANGED << pom, edits, dirExists, sentinel, cwd, ret, has_setup,
                    out_file, md5_hash, json_file, pom_items, s_items,
                    pom_md5, arg, result, obs, seenPom, entrySeen, rebuilds >>

\* setup, line 144: return the base name to the call site in main
Setup144 ==
    /\ pc = "s144"
    /\ \/ /\ ret = "m170"
          /\ out_file' = EntryName(pom_md5)
          /\ has_setup' = TRUE
          /\ pc' = "m180"
          /\ UNCHANGED json_file
       \/ /\ ret = "m177"
          /\ pc' = "m182"
          /\ UNCHANGED << out_file, has_setup, json_file >>
       \/ /\ ret = "m184"
          /\ json_file' = [ dir |-> "cwd", name |-> EntryName(pom_md5) ]
          /\ pc' = "m187"
          /\ UNCHANGED << out_file, has_setup >>
    /\ ret' = "none"
    /\ UNCHANGED << pom, edits, dirExists, sentinel, entries, cwd, md5_hash,
                    pom_items, s_items, pom_md5, arg, result, obs, seenPom,
                    entrySeen, rebuilds, writes >>

\* another process (an editor, git) rewrites pom.xml
ModifyPom ==
    /\ edits < MaxEdits
    /\ \E d \in Descriptors \ { pom } : pom' = d
    /\ edits' = edits + 1
    /\ UNCHANGED << dirExists, sentinel, entries, cwd, pc, ret, has_setup,
                    out_file, md5_hash, json_file, pom_items, s_items,
                    pom_md5, arg, result, obs, seenPom, entrySeen, rebuilds,
                    writes >>

\* the running process is killed (make interrupted): the files stay
Kill ==
    /\ pc \notin { "idle", "done", "failed" }
    /\ pc' = "idle"
    /\ NoLocals
    /\ UNCHANGED << pom, edits, dirExists, sentinel, entries >>

CacheNext ==
    \/ Start
    \/ Exit
    \/ Main168
    \/ Main174
    \/ Main176
    \/ Main180
    \/ Main182
    \/ Main187
    \/ Main190
    \/ Setup126
    \/ Setup131
    \/ Setup134
    \/ Setup135
    \/ Setup141
    \/ Setup144
    \/ ModifyPom
    \/ Kill

(***************************************************************************)
(* fix_config.py: FixConfig.  Element names and dict keys are str; a dict  *)
(* is the sequence of its items.  A program that ends is given its exit    *)
(* status: sys.exit(-1) is status 255, an uncaught exception is status 1.  *)
(***************************************************************************)
\* Tag.find_all() over a list of siblings: every element below, in document
\* order
RECURSIVE FindAllIn(_)
FindAllIn(siblings) ==
    IF siblings = << >> THEN << >>
    ELSE << Head(siblings) >> \o FindAllIn(Head(siblings).kids)
         \o FindAllIn(Tail(siblings))

\* node.find_all()
find_all(node) == FindAllIn(node.kids)

\* node.find_all(name)
find_all_named(node, tag) ==
    SelectSeq(find_all(node), LAMBDA elm : elm.name = tag)

\* the concatenation of a sequence of sequences
RECURSIVE Flatten(_)
Flatten(seqs) ==
    IF seqs = << >> THEN << >> ELSE Head(seqs) \o Flatten(Tail(seqs))

\* filter_data, lines 350-361: the assignments data[child_1.name] = text made
\* for the elements below every <properties> below every element
PropertyItems(bs_data) ==
    LET OfProperties(child) ==
            LET inner == SelectSeq(find_all(child), LAMBDA child_1 :
                            ~startswith(child_1.name, Lit("project")))
            IN  [ i \in DOMAIN inner |->
                    << inner[i].name, strip(TagText(inner[i])) >> ]
        OfElement(element) ==
            LET props == SelectSeq(find_all(element), LAMBDA child :
                            child.name = Lit("properties"))
            IN  Flatten([ i \in DOMAIN props |-> OfProperties(props[i]) ])
        elements == find_all(bs_data)
    IN  Flatten([ i \in DOMAIN elements |-> OfElement(elements[i]) ])

\* filter_group_id: the groupId elements whose last dot-segment is in the
\* lower-cased author.name
GroupIdItems(bs_data, data) ==
    LET elms == SelectSeq(find_all_named(bs_data, Lit("groupId")), LAMBDA elm :
                    LET parts == splitAll(strip(TagText(elm)), ".")
                    IN  Contains(lower(ItemOf(data, Lit("author.name"))),
                                 parts[Len(parts)]))
    IN  [ i \in DOMAIN elms |->
            << Lit("project.groupId"), strip(TagText(elms[i])) >> ]

\* filter_artifact_id: the artifactId elements whose first hyphen-segment is
\* the lower-cased package.name
ArtifactIdItems(bs_data, data) ==
    LET elms == SelectSeq(find_all_named(bs_data, Lit("artifactId")), LAMBDA elm :
                    splitAll(strip(TagText(elm)), "-")[1]
                        = lower(ItemOf(data, Lit("package.name"))))
    IN  [ i \in DOMAIN elms |->
            << Lit("project.artifactId"), strip(TagText(elms[i])) >> ]

\* filter_data raises KeyError: data['author.name'] or data['package.name']
\* is read for the first groupId or artifactId element
filter_data_raises(bs_data) ==
    LET data == DictOf(<< >>, PropertyItems(bs_data))
    IN  \/ /\ find_all_named(bs_data, Lit("groupId")) # << >>
           /\ ~HasKey(data, Lit("author.name"))
        \/ /\ find_all_named(bs_data, Lit("artifactId")) # << >>
           /\ ~HasKey(data, Lit("package.name"))

\* filter_data(bs_data)
filter_data(bs_data) ==
    LET data == DictOf(<< >>, PropertyItems(bs_data))
        data1 == DictOf(data, GroupIdItems(bs_data, data))
    IN  DictOf(data1, ArtifactIdItems(bs_data, data1))

\* json.dumps(data, indent=4): the members of the object, in the dict's order
cache_dumps(data) ==
    [ i \in DOMAIN data |-> [ name |-> data[i][1], value |-> data[i][2] ] ]

\* json.loads(text)
cache_loads(text) ==
    DictOf(<< >>, [ i \in DOMAIN text |-> << text[i].name, text[i].value >> ])

\* __get_version with the comparison made on the type as written
fixed_version_case_sensitive(config_data) ==
    LET core == GetOr(config_data, Lit("package.version.core"), Lit("null"))
        type == GetOr(config_data, Lit("package.releaseType"), Lit("null"))
    IN  IF type # Lit("release")
        THEN core \o << "-" >> \o type \o << "." >>
             \o GetOr(config_data, Lit("package.betaNum"), Lit("null"))
        ELSE core

\* __get_version, lines 269-273: fixed_version
fixed_version(config_data) ==
    LET core == GetOr(config_data, Lit("package.version.core"), Lit("null"))
        type == GetOr(config_data, Lit("package.releaseType"), Lit("null"))
    IN  IF lower(type) # Lit("release")
        THEN core \o << "-" >> \o type \o << "." >>
             \o GetOr(config_data, Lit("package.betaNum"), Lit("null"))
        ELSE core

\* re.match of ^version\s*[:=|=]+\s*(.*?)\s*$ on a stripped line
VersionRegexMatches(line) ==
    /\ startswith(line, Lit("version"))
    /\ LET rest == lstrip(SubSeq(line, 8, Len(line)))
       IN  rest # << >> /\ Head(rest) \in { ":", "=", "|" }

\* __get_version, lines 286-293: the lines the regex matches
VersionLines(list_data) ==
    { i \in DOMAIN list_data : VersionRegexMatches(strip(lower(list_data[i]))) }

\* the first elements of a sequence, seq[:n]
Take(seq, n) == SubSeq(seq, 1, IF Len(seq) < n THEN Len(seq) ELSE n)

\* __get_version, lines 290-292: new_version for the line that matches
new_version_of(line, config_data) ==
    join(<< " " >>, Take(split(upper(strip(lower(line)))), 2))
    \o << " " >> \o fixed_version(config_data)

\* __get_version, line 286: the index before any line has matched
UnsetIndex == -99

\* list[index] of Python for an index counted from 0: {} when it raises
\* IndexError, else {the position counted from 1}; an index below 0 counts
\* from the end of the list
PyIndex(list, index) ==
    LET at == IF index < 0 THEN index + Len(list) ELSE index
    IN  IF at < 0 \/ at >= Len(list) THEN {} ELSE { at + 1 }

\* __get_version(list_data, regex, config_data), lines 277-297: {} when it
\* exits with status 1 (an empty list, or IndexError at line 297), else
\* {(old_version, new_version, index)}
FixConfig_get_version(list_data, config_data) ==
    LET matches == VersionLines(list_data)
        index == IF matches = {} THEN UnsetIndex ELSE Least(matches) - 1
        new_version == IF matches = {} THEN None
                       ELSE new_version_of(list_data[index + 1], config_data)
        at == PyIndex(list_data, index)
    IN  IF list_data = << >> \/ at = {} THEN {}
        ELSE { [ old_version |-> strip(list_data[Content(at)]),
                 new_version |-> new_version,
                 index |-> index ] }

\* re.findall of \$\{([\w.-]+)\} in a str: group 1 of every match, left to
\* right, matches not overlapping
RECURSIVE FindPlaceholders(_)
FindPlaceholders(str) ==
    IF str = << >> THEN << >>
    ELSE LET m == MatchPlaceholder(str, "fixconfig")
         IN  IF m = {} THEN FindPlaceholders(Tail(str))
             ELSE << Content(m) >>
                  \o FindPlaceholders(SubSeq(str, Len(Content(m)) + 4, Len(str)))

\* the texts of a document, in document order (markup holds no placeholder)
RECURSIVE TextsOf(_)
TextsOf(siblings) ==
    IF siblings = << >> THEN << >>
    ELSE << Head(siblings).text >> \o TextsOf(Head(siblings).kids)
         \o TextsOf(Tail(siblings))

\* line 474: target_value, the placeholders found in repr(document)
target_value_of(doc) ==
    LET texts == TextsOf(doc.kids)
    IN  Flatten([ i \in DOMAIN texts |-> FindPlaceholders(texts[i]) ])

\* lines 476-477 raise KeyError: a placeholder that is no key of data
target_data_raises(doc, data) ==
    \E i \in DOMAIN target_value_of(doc) :
        ~HasKey(data, target_value_of(doc)[i])

\* lines 476-477: target_data
target_data_of(doc, data) ==
    LET target_value == target_value_of(doc)
    IN  DictOf(<< >>, [ i \in DOMAIN target_value |->
            << target_value[i], ItemOf(data, target_value[i]) >> ])

\* int(key) for a str of digits
RECURSIVE IntOf(_)
IntOf(digits) ==
    IF digits = << >> THEN 0
    ELSE 10 * IntOf(SubSeq(digits, 1, Len(digits) - 1))
         + (IndexOf(Digits, digits[Len(digits)]) - 1)

\* the pattern \${key} reads {key} as a repeat count when key is all digits
IsRepeatCount(key) == \A i \in DOMAIN key : key[i] \in Range(Digits)

\* the length of the match of the pattern \${key} at the start of str, or -1:
\* '$', '{', the characters of key ('.' matches any character but a newline)
\* and '}'; or, for a repeat count n, n times '$'
MatchKeyAt(str, key) ==
    IF IsRepeatCount(key)
    THEN LET n == IntOf(key)
         IN  IF Len(str) >= n /\ \A i \in 1 .. n : str[i] = "$" THEN n ELSE -1
    ELSE LET n == Len(key) + 3
         IN  IF /\ Len(str) >= n
                /\ str[1] = "$" /\ str[2] = "{" /\ str[n] = "}"
                /\ \A i \in DOMAIN key :
                      IF key[i] = "." THEN str[i + 2] # "\n"
                      ELSE str[i + 2] = key[i]
             THEN n ELSE -1

\* the characters the escapes of a replacement text stand for
EscapeOf ==
    [ c \in { "a", "b", "f", "n", "r", "t", "v", "\\" } |->
        CASE c = "n" -> "\n" [] c = "t" -> "\t" [] c = "r" -> "\r"
          [] c = "f" -> "\f" [] c = "a" -> "BEL" [] c = "b" -> "BS"
          [] c = "v" -> "VT" [] c = "\\" -> "\\" ]

\* the replacement text re.sub makes of repl, a template: {} when the
\* template raises re.error (a backslash at the end, before a letter that
\* is no escape, or before the number of a group the pattern does not
\* have), else {the text with its escapes replaced}; a backslash before
\* any other character stays.  The octal escape \0 and \g<0> are not
\* covered: no value of the model holds them
RECURSIVE expand_template(_)
expand_template(repl) ==
    IF repl = << >> THEN { << >> }
    ELSE IF Head(repl) # "\\"
    THEN { << Head(repl) >> \o t : t \in expand_template(Tail(repl)) }
    ELSE IF Len(repl) = 1 THEN {}
    ELSE LET c == repl[2]
             rest == expand_template(SubSeq(repl, 3, Len(repl)))
         IN  IF c \in DOMAIN EscapeOf
             THEN { << EscapeOf[c] >> \o t : t \in rest }
             ELSE IF c \in Range(LowerCase) \cup Range(UpperCase)
                          \cup Range(Digits)
             THEN {}
             ELSE { << "\\", c >> \o t : t \in rest }

\* re.sub raises re.error for this replacement
re_sub_raises(val) == expand_template(val) = {}

\* the matches of the pattern in str replaced by the text repl, from left to
\* right; an empty match is replaced at every position
RECURSIVE re_sub_text(_, _, _)
re_sub_text(key, repl, str) ==
    LET n == MatchKeyAt(str, key)
    IN  IF n > 0 THEN repl \o re_sub_text(key, repl, SubSeq(str, n + 1, Len(str)))
        ELSE IF n = 0 /\ str = << >> THEN repl
        ELSE IF n = 0
        THEN repl \o << Head(str) >> \o re_sub_text(key, repl, Tail(str))
        ELSE IF str = << >> THEN << >>
        ELSE << Head(str) >> \o re_sub_text(key, repl, Tail(str))

\* re.sub(fr'\${{{key}}}', val, str), line 480, for a val that does not
\* raise
re_sub(key, val, str) ==
    re_sub_text(key, Content(expand_template(val)), str)

\* lines 479-480 on one text: the substitutions of target_data, in order
RECURSIVE SubstituteText(_, _)
SubstituteText(target_data, str) ==
    IF target_data = << >> THEN str
    ELSE SubstituteText(Tail(target_data),
            re_sub(Head(target_data)[1], Head(target_data)[2], str))

\* lines 479-480 raise re.error: a value that is no replacement template
substitution_raises(target_data) ==
    \E i \in DOMAIN target_data : re_sub_raises(target_data[i][2])

\* lines 476-477 on bs_data, the text of the document, when every
\* placeholder is a key of data: the dict of the placeholders, in the order
\* they are first found
target_data_in(bs_data, data) ==
    LET target_value == FindPlaceholders(bs_data)
    IN  DictOf(<< >>, [ i \in DOMAIN target_value |->
            << target_value[i], ItemOf(data, target_value[i]) >> ])

\* lines 473-480 on bs_data, the text of the document, with the data of the
\* cache: KeyError for a placeholder that is no key of data, re.error for
\* a value that is no template, else the text with every key of
\* target_data substituted, in the order of the dict
substitute(bs_data, data) ==
    LET target_value == FindPlaceholders(bs_data)
    IN  IF \E i \in DOMAIN target_value : ~HasKey(data, target_value[i])
        THEN [ raised |-> "KeyError", value |-> << >> ]
        ELSE LET target_data == target_data_in(bs_data, data)
             IN  IF substitution_raises(target_data)
                 THEN [ raised |-> "error", value |-> << >> ]
                 ELSE [ raised |-> "none",
                        value |-> SubstituteText(target_data, bs_data) ]

\* lines 479-480 on the document: every text substituted (the values hold no
\* markup, so the document parsed again has the same elements)
RECURSIVE SubstituteIn(_, _)
SubstituteIn(target_data, siblings) ==
    [ i \in DOMAIN siblings |->
        [ name |-> siblings[i].name,
          text |-> SubstituteText(target_data, siblings[i].text),
          kids |-> SubstituteIn(target_data, siblings[i].kids) ] ]

\* XMLFormatter(indent=4): the indentation of a line at a level
Indent(level) == [ i \in 1 .. 4 * level |-> " " ]

\* Tag.prettify: an element without content is <name/>; otherwise the start
\* tag, the stripped text if it is not empty, the elements below one level
\* deeper, and the end tag, each on a line of its own
RECURSIVE PrettyLines(_, _)
PrettyLines(siblings, level) ==
    IF siblings = << >> THEN << >>
    ELSE LET node == Head(siblings)
             here ==
                IF node.text = << >> /\ node.kids = << >>
                THEN << Indent(level) \o << "<" >> \o node.name \o << "/", ">" >> >>
                ELSE << Indent(level) \o << "<" >> \o node.name \o << ">" >> >>
                     \o (IF strip(node.text) = << >> THEN << >>
                         ELSE << Indent(level + 1) \o strip(node.text) >>)
                     \o PrettyLines(node.kids, level + 1)
                     \o << Indent(level) \o << "<", "/" >> \o node.name \o << ">" >> >>
         IN  here \o PrettyLines(Tail(siblings), level)

\* BeautifulSoup(bs_data, 'xml').prettify(...).split(os.linesep): the XML
\* declaration, the lines of the document, and '' after the last line break
prettify(doc) ==
    << Lit("<?xml version=\"1.0\" encoding=\"utf-8\"?>") >>
    \o PrettyLines(doc.kids, 0) \o << EmptyStr >>

\* element.startswith(('<?', '<conf', '</conf'))
IsSkipped(element) ==
    \/ startswith(element, Lit("<?"))
    \/ startswith(element, Lit("<conf"))
    \/ startswith(element, Lit("</conf"))

\* the loop of lines 489-499 from index idx (counted from 1) on; the result
\* is {} when fixed_data[i] raises IndexError or a line that is None is
\* added to, else {bs_data}
RECURSIVE CollapseFrom(_, _, _, _)
CollapseFrom(bs_data, fixed_data, i, idx) ==
    IF idx > Len(bs_data) THEN { bs_data }
    ELSE LET element == bs_data[idx]
         IN  IF IsSkipped(element)
             THEN CollapseFrom(bs_data, fixed_data, i, idx + 1)
             ELSE IF ~startswith(strip(element), << "<" >>)
             THEN CollapseFrom(bs_data, Append(fixed_data, strip(element)),
                               i, idx + 1)
             ELSE IF fixed_data # << >>
                     /\ startswith(strip(element), << "<", "/" >>)
             THEN IF i + 1 > Len(fixed_data) \/ bs_data[idx - 2] = None
                  THEN {}
                  ELSE LET last == fixed_data[Len(fixed_data)] \o strip(element)
                           fixed == [ fixed_data EXCEPT ![Len(fixed_data)] = last ]
                       IN  CollapseFrom(
                               [ bs_data EXCEPT
                                   ![idx - 2] = @ \o fixed[i + 1],
                                   ![idx] = None,
                                   ![idx - 1] = None ],
                               fixed, i + 1, idx + 1)
             ELSE CollapseFrom(bs_data, fixed_data, i, idx + 1)

\* lines 483-501: the lines written for the document, {} when the loop raises
fixed_config_lines(doc) ==
    LET lines == prettify(doc)
        bs_data == [ lines EXCEPT ![1] = @ \o << "\n" >> ]
        done == CollapseFrom(bs_data, << >>, 0, 1)
    IN  IF done = {} THEN {}
        ELSE { SelectSeq(Content(done), LAMBDA data :
                    data # None /\ data # EmptyStr) }

\* lines 547-555: the manifest FixConfig expects
manifest_contents_of(data) ==
    << Lit("Manifest-Version: 1.2"),
       Lit("Built-By: ") \o Str(GetOr(data, Lit("author.name"), None)),
       Lit("License-File: LICENSE"),
       Lit("Main-Class: ") \o Str(GetOr(data, Lit("package.mainClass"), None)),
       Lit("Program-Name: ") \o Str(GetOr(data, Lit("package.name"), None)),
       Lit("Program-Version: v") \o fixed_version(data) >>

(***************************************************************************)
(* Part 2: the rewriting programs.  prog names the program that runs:      *)
(* "retriever" (part 1), "repairer" (a JMRepairer used by JMBuilder),      *)
(* "fixconfig" (fix_config.py) or "fixversion" (fix_version.py).           *)
(***************************************************************************)
VARIABLES
    prog,       \* the program that runs
    r_items,    \* JMRepairer._pom_items
    r_in,       \* the file infile names: {lines}
    r_out,      \* the file outfile names: NoFile or {lines}
    r_orig,     \* r_in as it was before any call
    r_before,   \* r_in as it was when the last call began
    r_hist      \* the calls made on r_in so far: the function, where it
                \* was to write ("in": infile, "out": outfile), whether
                \* __write_out wrote, and how the call ended

repVars == << r_items, r_in, r_out, r_orig, r_before, r_hist >>

\* the variables of a run of fix_config.py or fix_version.py (part 2b)
VARIABLES
    fs,         \* the files of the working tree: NoFile or {content} each,
                \* and dirs, the directories the programs make
    fs0,        \* fs as it was when the run began
    step,       \* the call the program is about to make, or "exited"
    last,       \* the call the program made last, "none" before the first
    exit_code,  \* {} while the program runs, {status} when it has exited
    wrote,      \* the files written in this run
    resolved,   \* the version the last step resolved, {} if none
    runs        \* the runs started so far

runVars == << fs, fs0, step, last, exit_code, wrote, resolved, runs >>

\* the variables of the placeholder patterns taken alone
VARIABLES
    ident,      \* the text between ${ and }
    matched     \* {} before the match, then {what each pattern captured}

patVars == << ident, matched >>

\* the variables of the functions called on their own (part 3)
VARIABLES
    u_clock,    \* the time of datetime.now(utc), in seconds
    u_pom,      \* the parsed descriptor the objects are built from
    u_built,    \* the objects built so far: when, and their _pom_items
    u_contents, \* the list the first call is given
    u_delims,   \* the delimiters, in the order they are applied
    u_none,     \* the argument none of remove_blanks
    u_calls,    \* the calls made so far: contents, delim or none, and ret:
                \* {the list returned}, or {} when ValueError was raised
    u_path,     \* the argument path of json_parser
    u_tree,     \* the paths that exist, with what is at each
    u_text,     \* bs_data, the text of the document that is substituted
    u_data      \* the data of the cache, a dict

utilVars == << u_clock, u_pom, u_built, u_contents, u_delims, u_none, u_calls,
               u_path, u_tree, u_text, u_data >>

\* the text ${key}
Placeholder(key) == << "$", "{" >> \o key \o << "}" >>

\* a key that _pom_items does not have
MissingKey == << "n", "o", ".", "k", "e", "y" >>

\* <<project.name, project.url>> of the POMs a JMRepairer is built from
\* (None: no such element)
RepairerTexts ==
    { << << "J", "M" >>, None >>,
      << None, None >>,
      << << "a", "=", "b" >>, << "u", ":", "r" >> >>,
      << << "#", "1" >>, << "u", ":", "r" >> >>,
      << Placeholder(KeyChars("project.url")), << "u", ":", "r" >> >> }

\* a POM with that name and that url (None: no such element)
RepairerPom(n, u) ==
    Soup(Elem("project",
        << Leaf("groupId", << "g" >>), Leaf("artifactId", << "a" >>),
           Leaf("version", << "1", ".", "0" >>) >>
        \o (IF n = None THEN << >> ELSE << Leaf("name", n) >>)
        \o (IF u = None THEN << >> ELSE << Leaf("url", u) >>)))

\* values of the entries of a template file
TemplateValues ==
    { << "x" >>,
      Placeholder(KeyChars("project.name")),
      << "v" >> \o Placeholder(KeyChars("project.name")),
      Placeholder(KeyChars("project.name")) \o << "-", "x" >>,
      Placeholder(MissingKey) }

\* the lines of a template file whose separator is sep: entries of key a,
\* one of them with '=' in its value, the entry ID that fix_manifest treats
\* apart, a comment and a line without separator
TemplateLines(sep) ==
    { << "a" >> \o sep \o v : v \in TemplateValues }
    \cup { << "a" >> \o sep \o << "x", "=", "y" >>,
           << "I", "D" >> \o sep \o Placeholder(KeyChars("project.name")),
           << "I", "D" >> \o sep \o Placeholder(MissingKey),
           << "#", " ", "c" >>, << "o", "o", "p", "s" >> }

\* the sequences of at most n elements of S
SeqsUpTo(S, n) == UNION { [ 1 .. m -> S ] : m \in 0 .. n }

\* the template files: .properties files and manifests
TemplateFiles ==
    SeqsUpTo(TemplateLines(<< " ", "=", " " >>), MaxEntries)
    \cup SeqsUpTo(TemplateLines(<< ":", " " >>), MaxEntries)

RepairerInit ==
    /\ prog = "repairer"
    /\ r_items \in { JMRepairer_init(RepairerPom(t[1], t[2]), 0) :
                        t \in RepairerTexts }
    /\ r_in \in { { f } : f \in TemplateFiles }
    /\ r_out = NoFile
    /\ r_orig = r_in
    /\ r_before = r_in
    /\ r_hist = << >>

\* the variables of the repairer when another program runs
RepairerIdle ==
    /\ r_items = << >>
    /\ r_in = NoFile
    /\ r_out = NoFile
    /\ r_orig = NoFile
    /\ r_before = NoFile
    /\ r_hist = << >>

\* JMRepairer.__write_out raises: os.path.dirname of a bare file name is '',
\* a path that does not exist and that os.mkdir cannot create
write_out_raises(bare) == bare

\* one call of fix_properties or fix_manifest: infile is r_in, named with or
\* without a directory; outfile is not given (dest "in") or names r_out
FixCall(fn, dest, bare) ==
    \E lines \in r_in :
    \E raises \in { JMProperties_raises(lines)
                     \/ (dest = "in" /\ write_out_raises(bare)) } :
    \E written \in { IF raises THEN << >>
                      ELSE IF fn = "fix_properties"
                      THEN fix_properties_lines(r_items, lines)
                      ELSE fix_manifest_lines(r_items, lines) } :
        /\ r_before' = r_in
        /\ r_hist' = Append(r_hist,
               [ fn |-> fn, dest |-> dest, wrote |-> ~raises,
                 state |-> IF raises THEN "raised" ELSE "returned" ])
        /\ r_in' = IF ~raises /\ dest = "in" THEN { written } ELSE r_in
        /\ r_out' = IF ~raises /\ dest = "out" THEN { written } ELSE r_out
        /\ UNCHANGED << r_items, r_orig >>

\* JMRepairer.fix_properties(infile, outfile)
FixProperties ==
    /\ prog = "repairer"
    /\ Len(r_hist) < MaxRuns
    /\ \E dest \in { "in", "out" }, bare \in BOOLEAN :
         FixCall("fix_properties", dest, bare)
    /\ UNCHANGED << prog, cacheVars, runVars, patVars, utilVars >>

\* JMRepairer.fix_manifest(infile, outfile)
FixManifest ==
    /\ prog = "repairer"
    /\ Len(r_hist) < MaxRuns
    /\ \E dest \in { "in", "out" }, bare \in BOOLEAN :
         FixCall("fix_manifest", dest, bare)
    /\ UNCHANGED << prog, cacheVars, runVars, patVars, utilVars >>

(***************************************************************************)
(* Part 2b: fix_config.py (FixConfig.run) and fix_version.py (__main__),   *)
(* each run from the root of the working tree.                             *)
(***************************************************************************)
\* sys.exit(status), or the exit of an uncaught exception
ExitWith(status) ==
    /\ step' = "exited"
    /\ exit_code' = { status }

\* pom.xml with these properties: releaseType and betaNum (None: no element),
\* and author.name when withAuthor
ProjectPom(type, beta, withAuthor) ==
    Soup(Elem(Lit("project"),
        << Leaf(Lit("groupId"), Lit("io.ryuu")),
           Leaf(Lit("artifactId"), Lit("jm-core")),
           Elem(Lit("properties"),
              << Leaf(Lit("package.name"), Lit("jm")) >>
              \o (IF withAuthor
                  THEN << Leaf(Lit("author.name"), Lit("Ryuu")) >> ELSE << >>)
              \o << Leaf(Lit("package.version.core"), Lit("1.0")) >>
              \o (IF type = None THEN << >>
                  ELSE << Leaf(Lit("package.releaseType"), type) >>)
              \o (IF beta = None THEN << >>
                  ELSE << Leaf(Lit("package.betaNum"), beta) >>)
              \o << Leaf(Lit("package.mainClass"), Lit("M")) >>) >>))

\* the pom.xml files FixConfig is run on
ProjectPoms ==
    { ProjectPom(Lit("release"), Lit("3"), TRUE),
      ProjectPom(Lit("Release"), Lit("3"), TRUE),
      ProjectPom(Lit("beta"), Lit("3"), TRUE),
      ProjectPom(Lit("beta"), None, TRUE),
      ProjectPom(None, Lit("3"), TRUE),
      ProjectPom(Lit("release"), Lit("3"), FALSE) }

\* the elements a config.xml template is made of: placeholders at the start
\* and in the middle of a text, a key pom.xml does not give, a key with
\* brackets, a plain text, and an element inside an element
TemplateElements ==
    { Leaf(Lit("name"), Placeholder(Lit("package.name"))),
      Leaf(Lit("version"), Lit("v") \o Placeholder(Lit("package.version.core"))),
      Leaf(Lit("x"), Placeholder(MissingKey)),
      Leaf(Lit("dev"), Placeholder(Lit("project.developers[0].name"))),
      Leaf(Lit("author"), Lit("Ryuu")),
      Elem(Lit("c"), << Leaf(Lit("l"), Placeholder(Lit("author.name"))) >>) }

\* src/main/resources/configuration/config.xml, parsed
ConfigTemplates ==
    { Soup(Elem(Lit("configuration"), kids)) :
        kids \in SeqsUpTo(TemplateElements, MaxElements) }

\* the data FixConfig reads from a release pom.xml
ReleaseData == filter_data(ProjectPom(Lit("release"), Lit("3"), TRUE))

\* <<Makefile, MANIFEST.MF>> of the working trees FixConfig is run in
ConfigTrees ==
    LET current == { << Lit("VERSION := 1.0"), Lit("all:") >> }
        fixed == { manifest_contents_of(ReleaseData) }
        stale == { << Lit("Manifest-Version: 1.0") >> }
    IN  { << current, fixed >>, << current, stale >>, << current, NoFile >>,
          << { << Lit("# c"), Lit("version=0.9") >> }, fixed >>,
          << { << Lit("all:") >> }, fixed >>,
          << { << >> }, stale >>,
          << NoFile, stale >> }

\* a Makefile without version line that is long enough for the index -99 to
\* name one of its lines
LongMakefile == [ i \in 1 .. -UnsetIndex |-> Lit("all:") ]

\* more Makefiles: the version line with two spaces before the version, the
\* version line without whitespace around the operator, the version line
\* indented, and the long Makefile
MoreMakefiles ==
    { { << Lit("VERSION :=  1.0"), Lit("all:") >> },
      { << Lit("VERSION:=0.9"), Lit("all:") >> },
      { << Lit("all:"), Lit("  VERSION := 0.9") >> },
      { LongMakefile } }

\* the files of a working tree that the user may not read
DeniedFiles == { {}, { "Makefile" }, { "MANIFEST.MF" } }

\* <<Makefile, MANIFEST.MF, files that cannot be read>> of the working trees
WorkingTrees ==
    { << w[1], w[2], {} >> : w \in ConfigTrees }
    \cup { << m, { << Lit("Manifest-Version: 1.0") >> }, {} >> : m \in MoreMakefiles }
    \cup { << { << Lit("VERSION := 1.0"), Lit("all:") >> },
             { << Lit("Manifest-Version: 1.0") >> }, d >> : d \in DeniedFiles }

\* the working tree whose Makefile and MANIFEST.MF are up to date for a
\* release
CurrentTree ==
    << { << Lit("VERSION := 1.0"), Lit("all:") >> },
       { manifest_contents_of(ReleaseData) }, {} >>

\* the templates of at most one element
ShortTemplates ==
    { Soup(Elem(Lit("configuration"), kids)) : kids \in SeqsUpTo(TemplateElements, 1) }

\* sys.argv[1:] of the runs of fix_config.py
Argvs == { << >>, << "-v" >>, << "x" >>, << "-v", "-v" >> }

\* main, line 589: opts_arg
opts_arg == { "-v", "--verbose", "verbose" }

FixConfigInit ==
    /\ prog = "fixconfig"
    /\ \E p \in { { d } : d \in ProjectPoms } \cup { NoFile },
          t \in { { d } : d \in ConfigTemplates } \cup { NoFile },
          w \in WorkingTrees :
         /\ t \subseteq ShortTemplates \/ w = CurrentTree
         /\ fs = [ pom |-> p, cache |-> NoFile, resource |-> t,
                   classes_config |-> NoFile, assets_config |-> NoFile,
                   makefile |-> w[1], manifest |-> w[2], dirs |-> {},
                   denied |-> w[3] ]
    /\ fs0 = fs
    /\ step = "main"
    /\ last = "none"
    /\ exit_code = {}
    /\ wrote = {}
    /\ resolved = {}
    /\ runs = 1

\* the variables of a run when no program of part 2b runs
RunIdle ==
    /\ fs = << >>
    /\ fs0 = << >>
    /\ step = "none"
    /\ last = "none"
    /\ exit_code = {}
    /\ wrote = {}
    /\ resolved = {}
    /\ runs = 0

\* main, lines 585-607: the check of the command line
FixConfigMain ==
    /\ prog = "fixconfig" /\ step = "main"
    /\ last' = step
    /\ \E argv \in Argvs :
         IF Len(argv) + 1 > 2 THEN ExitWith(255)
         ELSE IF Len(argv) + 1 = 2 /\ argv[1] \notin opts_arg THEN ExitWith(1)
         ELSE step' = "get_pom_data" /\ UNCHANGED exit_code
    /\ UNCHANGED << fs, fs0, wrote, resolved, runs, prog, repVars, patVars, utilVars, cacheVars >>

\* run, line 67: __get_pom_data(cache=True, out='config.json')
GetPomData ==
    /\ prog = "fixconfig" /\ step = "get_pom_data"
    /\ last' = step
    /\ IF fs.pom = NoFile
       THEN ExitWith(2) /\ UNCHANGED << fs, wrote >>
       ELSE IF filter_data_raises(Content(fs.pom))
       THEN ExitWith(1) /\ UNCHANGED << fs, wrote >>
       ELSE /\ fs' = [ fs EXCEPT
                    !.dirs = @ \cup { "target/.cache" },
                    !.cache = { cache_dumps(filter_data(Content(fs.pom))) } ]
            /\ wrote' = wrote \cup { "config.json" }
            /\ step' = "config.xml"
            /\ UNCHANGED exit_code
    /\ UNCHANGED << fs0, resolved, runs, prog, repVars, patVars, utilVars, cacheVars >>

\* run, lines 70-74: __fix_configuration(target='config.xml')
FixConfigXml ==
    /\ prog = "fixconfig" /\ step = "config.xml"
    /\ last' = step
    /\ LET made == [ fs EXCEPT !.dirs = @ \cup { "target/classes/configuration" } ]
       IN  IF fs.cache = NoFile \/ fs.resource = NoFile
           THEN ExitWith(2) /\ fs' = made /\ UNCHANGED wrote
           ELSE \E data \in { cache_loads(Content(fs.cache)) } :
                IF target_data_raises(Content(fs.resource), data)
                THEN ExitWith(1) /\ fs' = made /\ UNCHANGED wrote
                ELSE IF substitution_raises(
                            target_data_of(Content(fs.resource), data))
                THEN ExitWith(1) /\ fs' = made /\ UNCHANGED wrote
                ELSE \E lines \in { fixed_config_lines(
                        Soup(SubstituteIn(
                            target_data_of(Content(fs.resource), data),
                            Content(fs.resource).kids)[1])) } :
                     IF lines = {}
                     THEN ExitWith(1) /\ fs' = made /\ UNCHANGED wrote
                     ELSE /\ fs' = [ made EXCEPT !.classes_config = lines ]
                          /\ wrote' = wrote \cup { "config.xml" }
                          /\ step' = "makefile"
                          /\ UNCHANGED exit_code
    /\ UNCHANGED << fs0, resolved, runs, prog, repVars, patVars, utilVars, cacheVars >>

\* line 561: the manifest is up to date
manifest_is_current(contents, manifest_contents) == contents = manifest_contents

\* the Makefile branch without the comparison of line 521
makefile_is_current_never(old_version, new_version) == FALSE

\* line 521: the version line of the Makefile is up to date
makefile_is_current(old_version, new_version) == old_version = new_version

\* run, lines 77-81: __fix_configuration(target='makefile')
FixMakefile ==
    /\ prog = "fixconfig" /\ step = "makefile"
    /\ last' = step
    /\ IF fs.cache = NoFile \/ fs.makefile = NoFile
       THEN ExitWith(2) /\ UNCHANGED << fs, wrote, resolved >>
       ELSE IF "Makefile" \in fs.denied
       THEN ExitWith(255) /\ UNCHANGED << fs, wrote, resolved >>
       ELSE \E data \in { cache_loads(Content(fs.cache)) },
               target_data \in fs.makefile :
            \E got \in { FixConfig_get_version(target_data, data) } :
            /\ resolved' = { fixed_version(data) }
            /\ IF got = {}
               THEN ExitWith(1) /\ UNCHANGED << fs, wrote >>
               ELSE \E v \in got :
                    IF makefile_is_current(v.old_version, v.new_version)
                    THEN /\ step' = "manifest.mf"
                         /\ UNCHANGED << fs, wrote, exit_code >>
                    ELSE IF v.new_version = None
                    THEN ExitWith(1) /\ UNCHANGED << fs, wrote >>
                    ELSE /\ fs' = [ fs EXCEPT !.makefile =
                                { [ target_data EXCEPT ![v.index + 1] =
                                        v.new_version ] } ]
                         /\ wrote' = wrote \cup { "Makefile" }
                         /\ ExitWith(255)
    /\ UNCHANGED << fs0, runs, prog, repVars, patVars, utilVars, cacheVars >>

\* run, lines 84-88: __fix_configuration(target='manifest.mf'), and the end
\* of the program
FixManifestMf ==
    /\ prog = "fixconfig" /\ step = "manifest.mf"
    /\ last' = step
    /\ LET made == [ fs EXCEPT !.dirs = @ \cup { "MANIFEST" } ]
       IN  IF fs.cache = NoFile \/ fs.manifest = NoFile
           THEN ExitWith(2) /\ fs' = made /\ UNCHANGED << wrote, resolved >>
           ELSE IF "MANIFEST.MF" \in fs.denied
           THEN ExitWith(255) /\ fs' = made /\ UNCHANGED << wrote, resolved >>
           ELSE \E data \in { cache_loads(Content(fs.cache)) } :
                \E contents \in { manifest_contents_of(data) } :
                /\ resolved' = { fixed_version(data) }
                /\ ExitWith(0)
                /\ IF manifest_is_current(contents,
                        blank_remover(Content(fs.manifest)))
                   THEN fs' = made /\ UNCHANGED wrote
                   ELSE /\ fs' = [ made EXCEPT !.manifest = { contents } ]
                        /\ wrote' = wrote \cup { "MANIFEST.MF" }
    /\ UNCHANGED << fs0, runs, prog, repVars, patVars, utilVars, cacheVars >>

\* the build runs the program again
RunAgain ==
    /\ prog \in { "fixconfig", "fixversion" }
    /\ step = "exited"
    /\ runs < MaxRuns
    /\ runs' = runs + 1
    /\ step' = IF prog = "fixconfig" THEN "main" ELSE "get_config_data"
    /\ last' = "none"
    /\ exit_code' = {}
    /\ wrote' = {}
    /\ resolved' = {}
    /\ fs0' = fs
    /\ UNCHANGED << fs, prog, repVars, patVars, utilVars, cacheVars >>

(***************************************************************************)
(* fix_version.py.  An element of assets/configuration/config.xml that has *)
(* attributes carries them in attrs, a dict.                               *)
(***************************************************************************)
\* an element with text and attributes
LeafWith(tag, txt, attributes) ==
    [ name |-> tag, text |-> txt, kids |-> << >>, attrs |-> attributes ]
\* an element with child elements and no attribute
ElemOf(tag, children) ==
    [ name |-> tag, text |-> << >>, kids |-> children, attrs |-> << >> ]

\* get_config_data, lines 40-54: child_dict for an element
child_dict_of(element) ==
    LET children == find_all(element)
    IN  DictOf(<< >>, [ i \in DOMAIN children |->
            IF children[i].name = Lit("version")
            THEN << children[i].name,
                    << << Lit("value"), strip(TagText(children[i])) >>,
                       << Lit("type"),
                          strip(ItemOf(children[i].attrs, Lit("type"))) >> >> >>
            ELSE << children[i].name, strip(TagText(children[i])) >> ])

\* get_config_data exits with status 1: a <version> without type, or no
\* element 'configuration' that has elements below it (KeyError)
get_config_data_raises(bs) ==
    \/ \E i \in DOMAIN find_all(bs) :
          /\ find_all(bs)[i].name = Lit("version")
          /\ ~HasKey(find_all(bs)[i].attrs, Lit("type"))
    \/ ~\E i \in DOMAIN find_all(bs) :
          /\ find_all(bs)[i].name = Lit("configuration")
          /\ find_all(bs)[i].kids # << >>

\* get_config_data(bs): config_data['configuration'], the dict of the last
\* such element
get_config_data(bs) ==
    LET elements == SelectSeq(find_all(bs), LAMBDA element :
                        element.name = Lit("configuration")
                        /\ element.kids # << >>)
    IN  child_dict_of(elements[Len(elements)])

\* fix_version, lines 73-93, exits with status 1: no version, or a type that
\* is not 'release' and no beta_num (the KeyError is caught as Exception)
cfg_version_raises(cfg) ==
    \/ ~HasKey(cfg, Lit("version"))
    \/ /\ ItemOf(ItemOf(cfg, Lit("version")), Lit("type")) # Lit("release")
       /\ ~HasKey(cfg, Lit("beta_num"))

\* fix_version, lines 85-93: cfg_version
cfg_version_of(cfg) ==
    LET version == ItemOf(cfg, Lit("version"))
    IN  IF ItemOf(version, Lit("type")) # Lit("release")
        THEN ItemOf(version, Lit("value")) \o << "-" >>
             \o ItemOf(version, Lit("type")) \o << "." >>
             \o ItemOf(cfg, Lit("beta_num"))
        ELSE ItemOf(version, Lit("value"))

\* fix_version with every line taken for the declaration of the version
DeclaredAt_every(contents, delim) == DOMAIN contents

\* fix_version, lines 104-108: the lines that start with delim
DeclaredAt(contents, delim) ==
    { i \in DOMAIN contents : startswith(contents[i], delim) }

\* fix_version(fp, cfg, delim) on the file fp names: the exit status ({} when
\* the call returns), the value returned and the file afterwards
fix_version(file, cfg, delim) ==
    IF cfg_version_raises(cfg)
    THEN [ status |-> { 1 }, changed |-> FALSE, file |-> file ]
    ELSE IF file = NoFile
    THEN [ status |-> { 2 }, changed |-> FALSE, file |-> file ]
    ELSE IF DeclaredAt(Content(file), delim) = {}
    THEN [ status |-> { 1 }, changed |-> FALSE, file |-> file ]
    ELSE LET contents == Content(file)
             idx == Least(DeclaredAt(contents, delim))
             version == split(contents[idx])
         IN  IF version[Len(version)] = cfg_version_of(cfg)
             THEN [ status |-> {}, changed |-> FALSE, file |-> file ]
             ELSE [ status |-> {}, changed |-> TRUE,
                    file |-> { [ contents EXCEPT ![idx] =
                        join(<< " " >>,
                             [ version EXCEPT ![Len(version)] =
                                 cfg_version_of(cfg) ]) ] } ]

\* assets/configuration/config.xml with that version type (None: no type
\* attribute) and that beta_num (None: no element)
AssetsConfig(type, beta) ==
    [ name |-> "[document]", text |-> << >>, attrs |-> << >>,
      kids |-> << ElemOf(Lit("configuration"),
          << LeafWith(Lit("name"), Lit("jm"), << >>),
             LeafWith(Lit("version"), Lit("1.0"),
                 IF type = None THEN << >> ELSE << << Lit("type"), type >> >>) >>
          \o (IF beta = None THEN << >>
              ELSE << LeafWith(Lit("beta_num"), beta, << >>) >>)) >> ]

\* the configurations fix_version.py is run on
AssetsConfigs ==
    { AssetsConfig(Lit("release"), Lit("3")),
      AssetsConfig(Lit("Release"), Lit("3")),
      AssetsConfig(Lit("beta"), Lit("3")),
      AssetsConfig(Lit("beta"), None),
      AssetsConfig(Lit("release"), None),
      AssetsConfig(None, Lit("3")) }

\* <<Makefile, MANIFEST.MF>> of the working trees fix_version.py is run in
VersionTrees ==
    LET makefiles == { { << Lit("VERSION := 1.0"), Lit("all:") >> },
                       { << Lit("VERSION_SUFFIX = x"), Lit("VERSION := 0.9") >> },
                       { << Lit("# c"), Lit("VERSION = 0.9") >> },
                       { << Lit("VERSION:=0.9"), Lit("all:") >> },
                       { << Lit("VERSION") >> },
                       { << Lit("all:") >> },
                       NoFile }
        manifests == { { << Lit("Version: 1.0") >> },
                       { << Lit("Name: jm"), Lit("Version:  0.9") >> },
                       { << Lit("Program-Version: v1.0") >> },
                       NoFile }
    IN  makefiles \X manifests

FixVersionInit ==
    /\ prog = "fixversion"
    /\ \E c \in { { d } : d \in AssetsConfigs } \cup { NoFile },
          w \in VersionTrees :
         fs = [ pom |-> NoFile, cache |-> NoFile, resource |-> NoFile,
                classes_config |-> NoFile, assets_config |-> c,
                makefile |-> w[1], manifest |-> w[2], dirs |-> {},
                denied |-> {} ]
    /\ fs0 = fs
    /\ step = "get_config_data"
    /\ last = "none"
    /\ exit_code = {}
    /\ wrote = {}
    /\ resolved = {}
    /\ runs = 1

\* __main__, lines 146-147: convert_to_BS and get_config_data
GetConfigData ==
    /\ prog = "fixversion" /\ step = "get_config_data"
    /\ last' = step
    /\ IF fs.assets_config = NoFile THEN ExitWith(2)
       ELSE IF get_config_data_raises(Content(fs.assets_config))
       THEN ExitWith(1)
       ELSE step' = "manifest" /\ UNCHANGED exit_code
    /\ UNCHANGED << fs, fs0, wrote, resolved, runs, prog, repVars, patVars, utilVars, cacheVars >>

\* __main__, line 149: fix_version(manifest, CONFIG_DATA, 'Version')
FixVersionManifest ==
    /\ prog = "fixversion" /\ step = "manifest"
    /\ last' = step
    /\ \E cfg \in { get_config_data(Content(fs.assets_config)) } :
       \E call \in { fix_version(fs.manifest, cfg, Lit("Version")) } :
         /\ resolved' = IF cfg_version_raises(cfg) THEN {}
                        ELSE { cfg_version_of(cfg) }
         /\ fs' = [ fs EXCEPT !.manifest = call.file ]
         /\ wrote' = IF call.changed THEN wrote \cup { "MANIFEST.MF" } ELSE wrote
         /\ IF call.status # {}
            THEN step' = "exited" /\ exit_code' = call.status
            ELSE step' = "makefile" /\ UNCHANGED exit_code
    /\ UNCHANGED << fs0, runs, prog, repVars, patVars, utilVars, cacheVars >>

\* __main__, lines 152-158: fix_version(makefile, CONFIG_DATA, 'VERSION'),
\* the exit with status -1 when the file changed, and the end of the program
FixVersionMakefile ==
    /\ prog = "fixversion" /\ step = "makefile"
    /\ last' = step
    /\ \E cfg \in { get_config_data(Content(fs.assets_config)) } :
       \E call \in { fix_version(fs.makefile, cfg, Lit("VERSION")) } :
         /\ resolved' = IF cfg_version_raises(cfg) THEN {}
                        ELSE { cfg_version_of(cfg) }
         /\ fs' = [ fs EXCEPT !.makefile = call.file ]
         /\ wrote' = IF call.changed THEN wrote \cup { "Makefile" } ELSE wrote
         /\ step' = "exited"
         /\ exit_code' = IF call.status # {} THEN call.status
                         ELSE IF call.changed THEN { 255 } ELSE { 0 }
    /\ UNCHANGED << fs0, runs, prog, repVars, patVars, utilVars, cacheVars >>

(***************************************************************************)
(* The placeholder patterns on their own: JMRepairer._val_pattern and the  *)
(* pattern of FixConfig, applied to the text ${ident}.                     *)
(***************************************************************************)
\* characters of the candidate identifiers
IdentChars == { "a", "Z", "0", "_", ".", "-", "[", "]", "/", ":", "=", "@", " " }

\* the candidate identifiers
Idents == SeqsUpTo(IdentChars, MaxIdentLen) \ { << >> }

PatternInit ==
    /\ prog = "pattern"
    /\ ident \in Idents
    /\ matched = {}

\* the variables of the patterns when another program runs
PatternIdle ==
    /\ ident = << >>
    /\ matched = {}

\* self._val_pattern.match(text) and re.findall(pattern, text) for the text
\* ${ident}: is ident what the pattern captures
MatchIdent ==
    /\ prog = "pattern"
    /\ matched = {}
    /\ matched' = { [ repairer |-> val_pattern_match(Placeholder(ident)) = { ident },
                      fixconfig |-> FindPlaceholders(Placeholder(ident)) = << ident >> ] }
    /\ UNCHANGED << ident, prog, repVars, runVars, utilVars, cacheVars >>

(***************************************************************************)
(* Part 3: functions called on their own.  prog is "construct" (JMRepairer *)
(* objects built from one descriptor while the clock runs, and calls of    *)
(* PomParser.get on it), "remove_comments" (remove_comments applied for    *)
(* one delimiter and then, to what it returned, for a second one, as its   *)
(* docstring recommends), "remove_blanks" (one call of remove_blanks),     *)
(* "json_parser" (one call of json_parser) or "substitute" (the            *)
(* substitution of FixConfig on one text).                                 *)
(***************************************************************************)
\* remove_comments and remove_blanks raise ValueError on these lists:
\* not contents or len(contents) == 0
remove_comments_raises(contents) == Len(contents) = 0

remove_blanks_raises(contents) == Len(contents) = 0

\* lines given to remove_comments: of each delimiter, of none, and lines
\* that hold a delimiter after their first character
CommentLines ==
    { Lit("#c"), Lit("!c"), Lit("x"), Lit("a#"), Lit(" !") }

\* entries given to remove_blanks
BlankLines == { << >>, Lit("  "), Lit("a"), Lit(" a "), None }

\* a Python object given as path: its type and its repr
PyObject(type, repr) == [ type |-> type, val |-> repr ]

\* the path of the programs that call no json_parser
NoPath == PyObject("NoneType", Lit("None"))

\* bool(path)
Truthy(path) ==
    CASE path.type = "NoneType" -> FALSE
      [] path.type = "str" -> path.val # EmptyStr
      [] path.type = "int" -> path.val # Lit("0")
      [] path.type = "list" -> path.val # Lit("[]")

\* str.endswith(suffix)
endswith(str, suffix) ==
    /\ Len(str) >= Len(suffix)
    /\ SubSeq(str, Len(str) - Len(suffix) + 1, Len(str)) = suffix

\* how a call ends: an exception raised, or a value returned
Raise(exception) == [ raised |-> exception, value |-> << >> ]

Return(value) == [ raised |-> "none", value |-> value ]

\* the text of a file: '', white space, a JSON object with these members
\* in this order, or a text that is no JSON document
JsonText(kind, members) == [ kind |-> kind, members |-> members ]

\* json.loads(contents): the dict of the members, the last value of a name
\* written twice
json_loads(contents) ==
    IF contents.kind = "object" THEN Return(DictOf(<< >>, contents.members))
    ELSE Raise("JSONDecodeError")

\* json_parser with the extension checked before the path is looked up
json_parser_extension_first(path, tree) ==
    IF ~Truthy(path) THEN Raise("ValueError")
    ELSE IF path.type # "str" THEN Raise("JMUnknownTypeError")
    ELSE IF ~endswith(path.val, Lit(".json")) THEN Raise("JMParserError")
    ELSE IF path.val \notin DOMAIN tree THEN Raise("FileNotFoundError")
    ELSE IF tree[path.val].isdir THEN Raise("IsADirectoryError")
    ELSE IF tree[path.val].contents.kind = "empty" THEN Return(<< >>)
    ELSE json_loads(tree[path.val].contents)

\* json_parser(path), in a tree of files and directories
json_parser(path, tree) ==
    IF ~Truthy(path) THEN Raise("ValueError")
    ELSE IF path.type # "str" THEN Raise("JMUnknownTypeError")
    ELSE IF path.val \notin DOMAIN tree THEN Raise("FileNotFoundError")
    ELSE IF tree[path.val].isdir THEN Raise("IsADirectoryError")
    ELSE IF ~endswith(path.val, Lit(".json")) THEN Raise("JMParserError")
    ELSE IF tree[path.val].contents.kind = "empty" THEN Return(<< >>)
    ELSE json_loads(tree[path.val].contents)

\* the members of the JSON objects
JsonMembers ==
    { << Lit("k"), Lit("1") >>, << Lit("k"), Lit("2") >>,
      << Lit("j"), Lit("1") >> }

\* the texts of the files
JsonTexts ==
    { JsonText("empty", << >>), JsonText("blank", << >>),
      JsonText("garbage", << >>) }
    \cup { JsonText("object", m) : m \in SeqsUpTo(JsonMembers, MaxEntries) }

\* a tree with files of that text, a.json and a.txt, and directories d and
\* d.json
TreeOf(text) ==
    LET file == [ isdir |-> FALSE, contents |-> text ]
        dir == [ isdir |-> TRUE, contents |-> JsonText("empty", << >>) ]
    IN  [ path \in { Lit("a.json"), Lit("a.txt"), Lit("d"), Lit("d.json") } |->
            IF path \in { Lit("d"), Lit("d.json") } THEN dir ELSE file ]

\* the arguments given as path
Paths ==
    { PyObject("NoneType", Lit("None")), PyObject("str", EmptyStr),
      PyObject("int", Lit("0")), PyObject("int", Lit("5")),
      PyObject("list", Lit("[]")), PyObject("list", Lit("['a.json']")) }
    \cup { PyObject("str", Lit(path)) :
             path \in { "a.json", "a.txt", "d", "d.json", "n.json", "n" } }

JsonParserInit ==
    /\ prog = "json_parser"
    /\ u_clock = 0
    /\ u_pom = << >>
    /\ u_built = << >>
    /\ u_contents = << >>
    /\ u_delims = << >>
    /\ u_none = FALSE
    /\ u_calls = << >>
    /\ u_path \in Paths
    /\ u_tree \in { TreeOf(text) : text \in JsonTexts }
    /\ u_text = << >>
    /\ u_data = << >>

\* json_parser(u_path)
JsonParser ==
    /\ prog = "json_parser"
    /\ u_calls = << >>
    /\ u_calls' = << [ path |-> u_path, ret |-> json_parser(u_path, u_tree) ] >>
    /\ UNCHANGED << u_clock, u_pom, u_built, u_contents, u_delims, u_none,
                    u_path, u_tree, u_text, u_data, prog, repVars, runVars, patVars,
                    cacheVars >>

\* the pieces the texts are made of: placeholders of two keys and a text
\* without placeholder
TextPieces == { Placeholder(Lit("k")), Placeholder(Lit("j")), Lit("-") }

\* the texts that are substituted
Texts == { Flatten(t) : t \in SeqsUpTo(TextPieces, MaxLines) }

\* the values of the keys: a plain text, the placeholder of the other key,
\* a text with the escape of a line break and a text with a backslash
\* before a letter that is no escape
ValuesOf(other) ==
    { Lit("v"), Placeholder(other), Lit("a\\nb"), Lit("C:\\p") }

\* the data of the cache
Datas ==
    { << << Lit("k"), vk >>, << Lit("j"), vj >> >> :
        vk \in ValuesOf(Lit("j")), vj \in { Lit("w"), Placeholder(Lit("k")) } }

SubstituteInit ==
    /\ prog = "substitute"
    /\ u_clock = 0
    /\ u_pom = << >>
    /\ u_built = << >>
    /\ u_contents = << >>
    /\ u_delims = << >>
    /\ u_none = FALSE
    /\ u_calls = << >>
    /\ u_path = NoPath
    /\ u_tree = << >>
    /\ u_text \in Texts
    /\ u_data \in Datas

\* lines 473-480 of __fix_configuration on the text
Substitute ==
    /\ prog = "substitute"
    /\ u_calls = << >>
    /\ u_calls' = << [ bs_data |-> u_text, ret |-> substitute(u_text, u_data) ] >>
    /\ UNCHANGED << u_clock, u_pom, u_built, u_contents, u_delims, u_none,
                    u_path, u_tree, u_text, u_data, prog, repVars, runVars, patVars,
                    cacheVars >>

\* a POM whose parent, licenses and developers come before the elements
\* of the project itself
InheritingPom ==
    Soup(Elem("project",
        << Elem("parent", << Leaf("groupId", Lit("pg")),
                             Leaf("artifactId", Lit("pa")),
                             Leaf("version", Lit("9.9")) >>),
           Elem("licenses", << Elem("license",
               << Leaf("name", Lit("MIT")), Leaf("url", Lit("l:u")) >>) >>),
           Elem("developers", << Elem("developer",
               << Leaf("name", Lit("Ryuu")), Leaf("url", Lit("d:u")) >>) >>),
           Leaf("groupId", Lit("g")), Leaf("artifactId", Lit("a")),
           Leaf("version", Lit("1.0")), Leaf("name", Lit("JM")),
           Elem("properties", << Leaf("package.mainClass", Lit("M")) >>) >>))

\* POMs that lack nodes: a project with a license and nothing of its own, a
\* project with a name alone, an empty project, and a document whose root
\* is no project
SparsePoms ==
    { Soup(Elem("project", << Elem("licenses", << Elem("license",
          << Leaf("name", Lit("MIT")) >>) >>) >>)),
      Soup(Elem("project", << Leaf("name", Lit("JM")) >>)),
      Soup(Elem("project", << >>)),
      Soup(Elem("settings", << Leaf("name", Lit("JM")) >>)) }

\* the descriptors JMRepairer objects are built from
ConstructPoms ==
    { RepairerPom(t[1], t[2]) : t \in RepairerTexts }
    \cup { InheritingPom } \cup SparsePoms

\* the paths PomParser.get is called with
GetPaths ==
    { << "project", "name" >>, << "project", "version" >>,
      << "project", "licenses", "license", "name" >>,
      << "project", "url" >>, << "name" >>, << "properties", "package.mainClass" >> }

ConstructInit ==
    /\ prog = "construct"
    /\ u_clock = 0
    /\ u_pom \in ConstructPoms
    /\ u_built = << >>
    /\ u_contents = << >>
    /\ u_delims = << >>
    /\ u_none = FALSE
    /\ u_calls = << >>
    /\ u_path = NoPath
    /\ u_tree = << >>
    /\ u_text = << >>
    /\ u_data = << >>

RemoveCommentsInit ==
    /\ prog = "remove_comments"
    /\ u_clock = 0
    /\ u_pom = << >>
    /\ u_built = << >>
    /\ u_contents \in SeqsUpTo(CommentLines, MaxLines)
    /\ u_delims \in { << Lit("#"), Lit("!") >>, << Lit("!"), Lit("#") >> }
    /\ u_none = FALSE
    /\ u_calls = << >>
    /\ u_path = NoPath
    /\ u_tree = << >>
    /\ u_text = << >>
    /\ u_data = << >>

RemoveBlanksInit ==
    /\ prog = "remove_blanks"
    /\ u_clock = 0
    /\ u_pom = << >>
    /\ u_built = << >>
    /\ u_contents \in SeqsUpTo(BlankLines, MaxLines)
    /\ u_delims = << >>
    /\ u_none \in BOOLEAN
    /\ u_calls = << >>
    /\ u_path = NoPath
    /\ u_tree = << >>
    /\ u_text = << >>
    /\ u_data = << >>

\* the variables of part 3 when another program runs
UtilIdle ==
    /\ u_clock = 0
    /\ u_pom = << >>
    /\ u_built = << >>
    /\ u_contents = << >>
    /\ u_delims = << >>
    /\ u_none = FALSE
    /\ u_calls = << >>
    /\ u_path = NoPath
    /\ u_tree = << >>
    /\ u_text = << >>
    /\ u_data = << >>

\* a second passes
Tick ==
    /\ prog = "construct"
    /\ u_clock < MaxClock
    /\ u_clock' = u_clock + 1
    /\ UNCHANGED << u_pom, u_built, u_contents, u_delims, u_none, u_calls,
                    u_path, u_tree, u_text, u_data, prog, repVars, runVars, patVars,
                    cacheVars >>

\* JMRepairer() on the descriptor, which nobody modifies: the object is
\* built, or get_id raises AttributeError on a project_tag that is None
Construct ==
    /\ prog = "construct"
    /\ Len(u_built) < 2
    /\ \A c \in DOMAIN u_calls : u_calls[c].call # "JMRepairer"
    /\ IF PomParser_raises(u_pom)
       THEN /\ u_calls' = Append(u_calls,
                   [ call |-> "JMRepairer", keys |-> << >>, ret |-> {},
                     raised |-> "AttributeError" ])
            /\ UNCHANGED u_built
       ELSE /\ u_built' = Append(u_built,
                   [ at |-> u_clock,
                     items |-> JMRepairer_init(u_pom, u_clock) ])
            /\ UNCHANGED u_calls
    /\ UNCHANGED << u_clock, u_pom, u_contents, u_delims, u_none,
                    u_path, u_tree, u_text, u_data, prog, repVars, runVars, patVars,
                    cacheVars >>

\* PomParser(soup).get(keys) on the descriptor
Get ==
    /\ prog = "construct"
    /\ \A c \in DOMAIN u_calls : u_calls[c].call # "get"
    /\ \E keys \in GetPaths :
         u_calls' = Append(u_calls,
             [ call |-> "get", keys |-> keys,
               ret |-> PomParser_get(u_pom, keys), raised |-> "none" ])
    /\ UNCHANGED << u_clock, u_pom, u_built, u_contents, u_delims, u_none,
                    u_path, u_tree, u_text, u_data, prog, repVars, runVars, patVars,
                    cacheVars >>

\* remove_comments(contents, delim=u_delims[1]), and then
\* remove_comments(what it returned, delim=u_delims[2])
RemoveComments ==
    /\ prog = "remove_comments"
    /\ Len(u_calls) < Len(u_delims)
    /\ \A c \in DOMAIN u_calls : u_calls[c].ret # {}
    /\ LET contents == IF u_calls = << >> THEN u_contents
                       ELSE Content(u_calls[Len(u_calls)].ret)
           delim == u_delims[Len(u_calls) + 1]
       IN  u_calls' = Append(u_calls,
               [ contents |-> contents, delim |-> delim,
                 ret |-> IF remove_comments_raises(contents) THEN {}
                         ELSE { remove_comments(contents, delim) } ])
    /\ UNCHANGED << u_clock, u_pom, u_built, u_contents, u_delims, u_none,
                    u_path, u_tree, u_text, u_data, prog, repVars, runVars, patVars,
                    cacheVars >>

\* remove_blanks(contents, none=u_none)
RemoveBlanks ==
    /\ prog = "remove_blanks"
    /\ u_calls = << >>
    /\ u_path = NoPath
    /\ u_tree = << >>
    /\ u_text = << >>
    /\ u_data = << >>
    /\ u_calls' = << [ contents |-> u_contents, none |-> u_none,
                       ret |-> IF remove_blanks_raises(u_contents) THEN {}
                               ELSE { remove_blanks(u_contents, u_none) } ] >>
    /\ UNCHANGED << u_clock, u_pom, u_built, u_contents, u_delims, u_none,
                    u_path, u_tree, u_text, u_data, prog, repVars, runVars, patVars,
                    cacheVars >>

fixVars == << prog, repVars, runVars, patVars, utilVars >>

vars == << cacheVars, fixVars >>

\* the cache program alone
Init ==
    /\ CacheInit
    /\ prog = "retriever"
    /\ RepairerIdle
    /\ RunIdle
    /\ PatternIdle
    /\ UtilIdle

Next == CacheNext /\ UNCHANGED fixVars

Spec == Init /\ [][Next]_vars

\* the rewriting programs, one of them per behaviour
FixInit ==
    /\ CacheInit
    /\ pom = 1
    /\ UtilIdle
    /\ \/ RepairerInit /\ RunIdle /\ PatternIdle
       \/ FixConfigInit /\ RepairerIdle /\ PatternIdle
       \/ FixVersionInit /\ RepairerIdle /\ PatternIdle
       \/ PatternInit /\ RepairerIdle /\ RunIdle

FixNext ==
    \/ FixProperties
    \/ FixManifest
    \/ FixConfigMain
    \/ GetPomData
    \/ FixConfigXml
    \/ FixMakefile
    \/ FixManifestMf
    \/ GetConfigData
    \/ FixVersionManifest
    \/ FixVersionMakefile
    \/ RunAgain
    \/ MatchIdent

SpecFix == FixInit /\ [][FixNext]_vars

\* a run ended in ABORT_RESTART: it rewrote the Makefile and exited with the
\* status of sys.exit(-1) (fix_config.py line 544, fix_version.py line 158)
AbortRestart ==
    /\ prog \in { "fixconfig", "fixversion" }
    /\ step = "exited"
    /\ last = "makefile"
    /\ "Makefile" \in wrote
    /\ exit_code = { 255 }

\* the caller runs the program again after ABORT_RESTART, on the files the
\* run left
Restart ==
    /\ AbortRestart
    /\ runs < MaxRuns
    /\ runs' = runs + 1
    /\ step' = IF prog = "fixconfig" THEN "main" ELSE "get_config_data"
    /\ last' = "none"
    /\ exit_code' = {}
    /\ wrote' = {}
    /\ resolved' = {}
    /\ fs0' = fs
    /\ UNCHANGED << fs, prog, repVars, patVars, utilVars, cacheVars >>

\* the two version fixers, run again only after ABORT_RESTART
RestartInit ==
    /\ CacheInit
    /\ pom = 1
    /\ UtilIdle
    /\ RepairerIdle
    /\ PatternIdle
    /\ \/ FixConfigInit
       \/ FixVersionInit

RestartNext ==
    \/ FixConfigMain
    \/ GetPomData
    \/ FixConfigXml
    \/ FixMakefile
    \/ FixManifestMf
    \/ GetConfigData
    \/ FixVersionManifest
    \/ FixVersionMakefile
    \/ Restart

\* the steps of the two programs, in the order of their __main__ and run
StepNames ==
    { "main", "get_pom_data", "config.xml", "makefile", "manifest.mf",
      "get_config_data", "manifest", "exited" }

\* a program that has not exited takes its next step: every step of
\* RestartNext but Restart is such a step, and one of them is enabled
\* whenever the program has not exited
ProgramStep ==
    /\ step \notin { "exited", "none" }
    /\ step' \in StepNames
    /\ step' # step

\* a started program runs until it exits (a Python process is not suspended
\* for ever), and the caller does run it again after ABORT_RESTART
SpecRestart ==
    /\ RestartInit
    /\ [][RestartNext]_vars
    /\ WF_step(ProgramStep)
    /\ WF_vars(Restart)

\* the functions of part 3, one of them per behaviour
UtilInit ==
    /\ CacheInit
    /\ pom = 1
    /\ RepairerIdle
    /\ RunIdle
    /\ PatternIdle
    /\ \/ ConstructInit
       \/ RemoveCommentsInit
       \/ RemoveBlanksInit
       \/ JsonParserInit
       \/ SubstituteInit

UtilNext ==
    \/ Tick
    \/ Construct
    \/ Get
    \/ RemoveComments
    \/ RemoveBlanks
    \/ JsonParser
    \/ Substitute

SpecUtil == UtilInit /\ [][UtilNext]_vars

(***************************************************************************)
(* Claims about the cache (retriever.py).                                  *)
(***************************************************************************)
\* the namespace setup caches for descriptor d
CachedItems(d) ==
    DictDel(JMRepairer_init(PomDocument(d), 0), "maven.build.timestamp")

\* the descriptor content a hash is the MD5 of
DescriptorOf(h) == CHOOSE d \in Descriptors : md5_get(d) = h

\* main found the cache stale: no sentinel, or a hash that is not pom.xml's
SawStale == obs = NoFile \/ Content(obs) # md5_get(seenPom[1])

\* main found a sentinel whose hash is not the hash of pom.xml
SawMismatch == obs # NoFile /\ seenPom[1] # 0
               /\ Content(obs) # md5_get(seenPom[1])

\* C1: when main found a sentinel recording another hash than pom.xml's (and
\* pom.xml is as main hashed it), the namespace main answers from is the one
\* extracted from the current pom.xml.
C1_AnswersFromCurrentPom ==
    (pc = "m190" /\ SawMismatch /\ seenPom = << pom, edits >>)
        => pom_items = CachedItems(pom)

\* C2: in every state of the cache, a sentinel that exists names an entry
\* that exists.
C2_SentinelNamesEntry ==
    sentinel # NoFile => entries[Content(sentinel)] # NoFile

\* C3: main rebuilds the cache whenever the sentinel is missing or records
\* another hash than pom.xml's, and writes no cache file when the sentinel
\* matches pom.xml and the entry it names exists.
C3_RebuildsIffStale ==
    pc \in { "m187", "m190", "done" } =>
        /\ SawStale => (rebuilds >= 1 /\ writes >= 2)
        /\ (~SawStale /\ entrySeen) => (rebuilds = 0 /\ writes = 0)

\* C3 witness: main ended after finding a sentinel with another hash than
\* pom.xml's, and rebuilt the cache once.
C3_Witness == pc = "done" /\ SawMismatch /\ rebuilds = 1

\* C4: when setup completes, the sentinel holds the hash h setup computed and
\* the entry pom-<h> holds, keys sorted, the namespace of the descriptor
\* content whose MD5 is h.
C4_EntryIsNamespaceOfHash ==
    pc = "s144" =>
        /\ sentinel = { pom_md5 }
        /\ entries[pom_md5] = { json_dumps(CachedItems(DescriptorOf(pom_md5))) }

\* main found no entry for md5_hash and called setup at line 184: json_file
\* is the name setup returned
FellBackToSetup == json_file.dir = "cwd"

\* C30: when main found no entry for the hash and fell back to setup, the
\* file it opens and loads is the entry setup just wrote in OUTPUT_DIR,
\* whatever the working directory is: main does not fail on it.
C30_FallbackOpensEntry ==
    /\ (pc = "m187" /\ FellBackToSetup) =>
          /\ entries[pom_md5] # NoFile
          /\ FileAt(json_file, cwd, entries) = entries[pom_md5]
    /\ FellBackToSetup => pc # "failed"

(***************************************************************************)
(* Claims about JMRepairer (core.py).                                      *)
(***************************************************************************)
\* the identifiers of the placeholders ${identifier} that occur in str, the
\* identifier being a non-empty run of word characters, '.', '-', '[', ']'
PlaceholdersIn(str) ==
    UNION { MatchPlaceholder(SubSeq(str, i, Len(str)), "escaped") :
                i \in 1 .. Len(str) }

\* str with every placeholder whose key items has replaced by the value
RECURSIVE SubstAll(_, _)
SubstAll(str, items) ==
    IF str = << >> THEN << >>
    ELSE LET m == MatchPlaceholder(str, "escaped")
         IN  IF m # {} /\ KeysOfChars(items, Content(m)) # {}
             THEN Str(items[CHOOSE k \in KeysOfChars(items, Content(m)) : TRUE])
                  \o SubstAll(SubSeq(str, Len(Content(m)) + 4, Len(str)), items)
             ELSE << Head(str) >> \o SubstAll(Tail(str), items)

\* the last call made on the template file
LastCall == r_hist[Len(r_hist)]

\* the file the last call wrote to
LastWritten == IF LastCall.dest = "in" THEN Content(r_in) ELSE Content(r_out)

\* the separator a function writes between key and value
SepOf(fn) == IF fn = "fix_properties" THEN << " ", "=", " " >> ELSE << ":", " " >>

\* the placeholders of the texts of a document
PlaceholdersOfDocument(doc) ==
    UNION { PlaceholdersIn(TextsOf(doc.kids)[i]) : i \in DOMAIN TextsOf(doc.kids) }

\* C5: rewriting a properties target (lines "key = value") with
\* fix_properties, or config.xml with FixConfig, when the target holds a
\* placeholder whose key the namespace does not have, fails, and no output
\* file is written or modified.
C5_MissingKeyFails ==
    /\ ( /\ prog = "repairer" /\ r_hist # << >>
         /\ LastCall.fn = "fix_properties"
         /\ \A i \in DOMAIN Content(r_before) :
              Content(r_before)[i] \in TemplateLines(SepOf("fix_properties"))
         /\ \E i \in DOMAIN Content(r_before) :
              \E id \in PlaceholdersIn(Content(r_before)[i]) :
                  KeysOfChars(r_items, id) = {} )
       => ( LastCall.state = "raised" /\ ~LastCall.wrote /\ r_in = r_before )
    /\ ( /\ prog = "fixconfig" /\ last = "config.xml"
         /\ fs.cache # NoFile /\ fs.resource # NoFile
         /\ \E id \in PlaceholdersOfDocument(Content(fs.resource)) :
              ~HasKey(cache_loads(Content(fs.cache)), id) )
       => ( /\ exit_code # {} /\ exit_code # { 0 }
            /\ "config.xml" \notin wrote
            /\ fs.classes_config = fs0.classes_config )

\* C6: after fix_properties or fix_manifest returned, every entry whose input
\* value holds placeholders, all of them keys of the namespace, is written
\* with the value in which every ${key} is replaced by the namespace value and
\* every other character is kept.
C6_EveryOccurrenceReplaced ==
    (prog = "repairer" /\ r_hist # << >> /\ LastCall.state = "returned") =>
        LET input == JMProperties_init(Content(r_before))
        IN  \A i \in DOMAIN input :
                ( /\ PlaceholdersIn(input[i][2]) # {}
                  /\ \A id \in PlaceholdersIn(input[i][2]) :
                        KeysOfChars(r_items, id) # {} )
                => LastWritten[i] = input[i][1] \o SepOf(LastCall.fn)
                                    \o SubstAll(input[i][2], r_items)

\* C8: when fix_properties (or fix_manifest) ran twice in place on a file
\* whose placeholders are all keys of the namespace, the file after the second
\* run is the file after the first run.
C8_SecondRunChangesNothing ==
    ( /\ prog = "repairer"
      /\ Len(r_hist) = 2
      /\ \A i \in DOMAIN Content(r_orig) :
            \A id \in PlaceholdersIn(Content(r_orig)[i]) :
                KeysOfChars(r_items, id) # {}
      /\ LastCall.dest = "in" /\ LastCall.state = "returned"
      /\ r_hist[Len(r_hist) - 1] = LastCall )
    => r_in = r_before

\* C7: the identifiers JMRepairer's pattern recognises inside ${...} are
\* exactly the non-empty strings of word characters, '.', '-', '[' and ']'.
C7_IdentifiersRecognised ==
    (prog = "pattern" /\ matched # {}) =>
        ( Content(matched).repairer
          <=> \A i \in DOMAIN ident : InRepairerClassEscaped(ident[i]) )

\* C9: a rewrite whose resolved content equals the current content of the
\* file it writes to performs no write: fix_properties and fix_manifest in
\* place, FixConfig's config.xml rewrite and FixConfig's MANIFEST.MF rewrite.
C9_NoWriteWhenEqual ==
    /\ ( /\ prog = "repairer" /\ r_hist # << >>
         /\ LastCall.dest = "in" /\ LastCall.state = "returned"
         /\ r_in = r_before )
       => ~LastCall.wrote
    /\ ( /\ prog = "fixconfig" /\ last = "config.xml" /\ step = "makefile"
         /\ fs.classes_config = fs0.classes_config )
       => "config.xml" \notin wrote
    /\ ( /\ prog = "fixconfig" /\ last = "manifest.mf" /\ exit_code = { 0 }
         /\ fs0.manifest = { manifest_contents_of(cache_loads(Content(fs.cache))) } )
       => "MANIFEST.MF" \notin wrote

\* the namespace of the last step gives version, release type and beta number
VersionNamespace ==
    IF prog = "fixconfig"
    THEN LET data == cache_loads(Content(fs.cache))
         IN  IF /\ HasKey(data, Lit("package.version.core"))
                /\ HasKey(data, Lit("package.releaseType"))
                /\ HasKey(data, Lit("package.betaNum"))
             THEN { [ version |-> ItemOf(data, Lit("package.version.core")),
                      type |-> ItemOf(data, Lit("package.releaseType")),
                      beta |-> ItemOf(data, Lit("package.betaNum")) ] }
             ELSE {}
    ELSE LET cfg == get_config_data(Content(fs.assets_config))
         IN  IF HasKey(cfg, Lit("version")) /\ HasKey(cfg, Lit("beta_num"))
             THEN { [ version |-> ItemOf(ItemOf(cfg, Lit("version")), Lit("value")),
                      type |-> ItemOf(ItemOf(cfg, Lit("version")), Lit("type")),
                      beta |-> ItemOf(cfg, Lit("beta_num")) ] }
             ELSE {}

\* version-releaseType.betaNum
Qualified(ns) ==
    ns.version \o << "-" >> \o ns.type \o << "." >> \o ns.beta

LastToken(line) == split(line)[Len(split(line))]

\* line with its last token replaced by token, every other character kept
ReplaceLastToken(line, token) ==
    LET used == Len(rstrip(line))
    IN  SubSeq(line, 1, used - Len(LastToken(line))) \o token
        \o SubSeq(line, used + 1, Len(line))

\* the file the last step was to fix, before the run and now
FixedName == IF last = "manifest" THEN "MANIFEST.MF" ELSE "Makefile"
FileBefore == IF last = "manifest" THEN fs0.manifest ELSE fs0.makefile
FileAfter == IF last = "manifest" THEN fs.manifest ELSE fs.makefile

\* the last step was a version fix that resolved the version and had a file
\* to read
VersionFixRan ==
    /\ \/ prog = "fixversion" /\ last \in { "manifest", "makefile" }
       \/ prog = "fixconfig" /\ last = "makefile"
    /\ resolved # {}
    /\ FileBefore # NoFile

\* the lines that match the version keyword of the last step: for
\* fix_version the lines that start with Version (manifest) or VERSION
\* (Makefile), for FixConfig the lines its regular expression matches
KeywordLines(contents) ==
    IF prog = "fixconfig"
    THEN { i \in DOMAIN contents :
             VersionRegexMatches(strip(lower(contents[i]))) }
    ELSE { i \in DOMAIN contents :
             startswith(contents[i],
                 IF last = "manifest" THEN Lit("Version") ELSE Lit("VERSION")) }

\* the version line: the first line that matches the keyword
VersionLine == Content(FileBefore)[Least(KeywordLines(Content(FileBefore)))]

\* FixConfig signalled the restart: the exit of line 544, after the write
RestartSignalled ==
    /\ prog = "fixconfig" /\ last = "makefile"
    /\ "Makefile" \in wrote
    /\ exit_code = { 255 }

\* C11: when the last token of the version line differs from the resolved
\* version, the fixer reports the change and writes the file with that token
\* alone replaced: the rest of the line and every other line are kept.
C11_OnlyLastTokenChanges ==
    ( /\ VersionFixRan
      /\ KeywordLines(Content(FileBefore)) # {}
      /\ LastToken(VersionLine) # Content(resolved) )
    => /\ FixedName \in wrote
       /\ prog = "fixconfig" => RestartSignalled
       /\ FileAfter =
            { [ Content(FileBefore) EXCEPT
                  ![Least(KeywordLines(Content(FileBefore)))] =
                      ReplaceLastToken(@, Content(resolved)) ] }

\* C12: when the last token of the version line equals the resolved version,
\* the fixer reports no change, leaves the file as it was and signals no
\* restart.
C12_NoChangeWhenCurrent ==
    ( /\ VersionFixRan
      /\ KeywordLines(Content(FileBefore)) # {}
      /\ LastToken(VersionLine) = Content(resolved) )
    => /\ FixedName \notin wrote
       /\ FileAfter = FileBefore
       /\ exit_code # { 255 }

\* C13: when no line of the file matches the version keyword, the version fix
\* ends with a status that is not zero and the file is as it was, whatever
\* the length of the file.
C13_NoDeclarationFails ==
    ( /\ VersionFixRan
      /\ KeywordLines(Content(FileBefore)) = {} )
    => /\ exit_code # {} /\ exit_code # { 0 }
       /\ FixedName \notin wrote
       /\ FileAfter = FileBefore

\* C13 witness: FixConfig failed on a Makefile without version line in which
\* the index -99 names a line.
C13_Witness ==
    /\ prog = "fixconfig" /\ last = "makefile" /\ VersionFixRan
    /\ KeywordLines(Content(FileBefore)) = {}
    /\ Len(Content(FileBefore)) >= -UnsetIndex
    /\ exit_code = { 1 }

\* the order in which FixConfig.run takes its steps
RunOrder ==
    { << "main", "get_pom_data" >>, << "get_pom_data", "config.xml" >>,
      << "config.xml", "makefile" >>, << "makefile", "manifest.mf" >> }

\* C14: FixConfig.run processes config.xml, Makefile and MANIFEST.MF in this
\* order; it ends with the restart signal if and only if the version line of
\* the Makefile was rewritten in this run, and with status 0 only after the
\* three targets were processed; a rewrite of the manifest never comes with
\* the restart signal.
C14_OrderAndTerminalStates ==
    /\ []( (prog = "fixconfig" /\ step = "exited") =>
             /\ (fs.makefile # fs0.makefile) <=> RestartSignalled
             /\ exit_code = { 0 } => last = "manifest.mf"
             /\ fs.manifest # fs0.manifest => exit_code = { 0 } )
    /\ [][ (prog = "fixconfig" /\ step' # step) =>
             \/ << step, step' >> \in RunOrder
             \/ step' = "exited"
             \/ step = "exited" /\ step' = "main" ]_vars

\* C14 witness: a run that rewrote the manifest, left the Makefile as it was
\* and ended with status 0.
C14_Witness ==
    /\ prog = "fixconfig" /\ step = "exited" /\ exit_code = { 0 }
    /\ fs.manifest # fs0.manifest
    /\ fs.makefile = fs0.makefile

\* C15: FixConfig exits with the status of the restart signal only to signal
\* the restart: no fatal error exits with that status.
C15_RestartStatusReserved ==
    (prog = "fixconfig" /\ exit_code = { 255 }) => RestartSignalled


\* the keys of the namespace that have no value
KeysWithoutValue == { k \in DOMAIN r_items : r_items[k] = None }

\* the entries of the file read whose value holds a placeholder of a key
\* that has no value
EntriesWithoutValue ==
    LET input == JMProperties_init(Content(r_before))
    IN  { i \in DOMAIN input :
            \E id \in PlaceholdersIn(input[i][2]) :
            \E k \in KeysWithoutValue : KeyCharsTable[k] = id }

\* C25: when the file holds a placeholder whose key the namespace has
\* without a value (None), fix_properties and fix_manifest fail and write
\* nothing: the text None is not written as the value of an entry.
C25_NoValueFails ==
    ( /\ prog = "repairer" /\ r_hist # << >>
      /\ ~JMProperties_raises(Content(r_before))
      /\ EntriesWithoutValue # {} )
    => /\ LastCall.state = "raised"
       /\ ~LastCall.wrote
       /\ r_in = r_before

\* the entries of a manifest as its lines give them: the lines that are
\* not blank and no comment, each split at its first ': '
ManifestEntries(lines) ==
    LET kept == SelectSeq(lines, LAMBDA line :
                    /\ \E j \in DOMAIN line : line[j] \notin { " ", "\n" }
                    /\ line[1] # "#")
        colon(line) == CHOOSE j \in DOMAIN line :
                          /\ line[j] = ":"
                          /\ \A n \in 1 .. j - 1 : line[n] # ":"
    IN  [ i \in DOMAIN kept |->
            << SubSeq(kept[i], 1, colon(kept[i]) - 1),
               SubSeq(kept[i], colon(kept[i]) + 2, Len(kept[i])) >> ]

\* the lines of the file are manifest entries, key: value, or comments, and
\* no key is written twice
IsManifest(lines) ==
    /\ \A i \in DOMAIN lines : lines[i] \in TemplateLines(<< ":", " " >>)
                               /\ lines[i] # << "o", "o", "p", "s" >>
    /\ \A i, j \in DOMAIN ManifestEntries(lines) :
          i # j => ManifestEntries(lines)[i][1] # ManifestEntries(lines)[j][1]

\* C26: after fix_manifest, every entry whose value is a placeholder of a
\* key the namespace does not have is written with its value as it was
\* read, whatever the key of the entry, and every entry without placeholder
\* is written with its key and value.
C26_MissingKeyRoundTrips ==
    ( /\ prog = "repairer" /\ r_hist # << >>
      /\ LastCall.fn = "fix_manifest" /\ LastCall.state = "returned"
      /\ IsManifest(Content(r_before)) )
    => LET input == ManifestEntries(Content(r_before))
       IN  \A i \in DOMAIN input :
             ( \/ PlaceholdersIn(input[i][2]) = {}
               \/ /\ input[i][2] = Placeholder(MissingKey)
                  /\ KeysOfChars(r_items, MissingKey) = {} )
             => \E j \in DOMAIN LastWritten :
                    LastWritten[j] = input[i][1] \o << ":", " " >> \o input[i][2]

\* the keyword of the last step as the programs write it
Keyword ==
    IF prog = "fixconfig" THEN Lit("VERSION")
    ELSE IF last = "manifest" THEN Lit("Version") ELSE Lit("VERSION")

\* the leading token of a line is the keyword, letter for letter: the line
\* without its indentation starts with the keyword and the character after
\* it, if there is one, is no character of a name
LeadsWith(line, keyword) ==
    LET from == CHOOSE i \in 1 .. Len(line) + 1 :
                    /\ \A j \in 1 .. i - 1 : line[j] \in { " ", "\n" }
                    /\ i <= Len(line) => line[i] \notin { " ", "\n" }
        until == from + Len(keyword)
    IN  /\ until - 1 <= Len(line)
        /\ \A j \in DOMAIN keyword : line[from + j - 1] = keyword[j]
        /\ until <= Len(line) => line[until] \notin WordChars

\* the lines whose leading token is the keyword
DeclarationLines(contents) ==
    { i \in DOMAIN contents : LeadsWith(contents[i], Keyword) }

\* C22: the line taken as the declaration of the version is the first line
\* whose leading token is the keyword, letter for letter: the fixer fails
\* without a write when there is no such line, and a fixer that writes
\* changes that line and no other; a line whose first token only starts
\* with the keyword, or differs from it in letter case, is not taken.
C22_FirstLineWithKeyword ==
    VersionFixRan =>
        LET before == Content(FileBefore)
            declared == DeclarationLines(before)
        IN  /\ declared = {} =>
                /\ exit_code # {} /\ exit_code # { 0 }
                /\ FixedName \notin wrote
            /\ FixedName \in wrote =>
                /\ declared # {}
                /\ Len(Content(FileAfter)) = Len(before)
                /\ \A i \in DOMAIN before :
                      i # Least(declared) => Content(FileAfter)[i] = before[i]

\* the rewrite of config.xml has written its file in this run
ConfigXmlWritten == prog = "fixconfig" /\ "config.xml" \in wrote

\* C17: the file written by the rewrite of config.xml holds no XML
\* declaration: no line of it starts with '<?xml'.
C17_NoXmlDeclaration ==
    ConfigXmlWritten =>
        \A i \in DOMAIN Content(fs.classes_config) :
            ~startswith(Content(fs.classes_config)[i], Lit("<?xml"))

\* the lines of these elements with every element that has only a text on
\* one line, without indentation
RECURSIVE OneLinePerLeaf(_)
OneLinePerLeaf(siblings) ==
    IF siblings = << >> THEN << >>
    ELSE LET node == Head(siblings)
             open == << "<" >> \o node.name \o << ">" >>
             close == << "<", "/" >> \o node.name \o << ">" >>
             here ==
                IF node.kids = << >> /\ strip(node.text) = << >>
                THEN << << "<" >> \o node.name \o << "/", ">" >> >>
                ELSE IF node.kids = << >>
                THEN << open \o strip(node.text) \o close >>
                ELSE << open >> \o OneLinePerLeaf(node.kids) \o << close >>
         IN  here \o OneLinePerLeaf(Tail(siblings))

\* the rewrite of config.xml has just run on a template of which the cache
\* resolves every placeholder
ConfigXmlRewritten ==
    /\ prog = "fixconfig" /\ last = "config.xml"
    /\ fs.cache # NoFile /\ fs.resource # NoFile
    /\ ~target_data_raises(Content(fs.resource),
                           cache_loads(Content(fs.cache)))

\* the lines of the file written, but those of a declaration, stripped
ElementLines(file) ==
    LET lines == SelectSeq(file, LAMBDA line : ~startswith(line, Lit("<?")))
    IN  [ i \in DOMAIN lines |-> strip(lines[i]) ]

\* C18: for every well-formed template, of leaf elements and of elements
\* holding elements, the rewrite of config.xml writes each leaf element
\* with a text on one line, <tag>value</tag>, and the elements written are
\* those of the template pretty-printed, in the same order.
C18_LeafsOnOneLine ==
    ConfigXmlRewritten =>
        /\ "config.xml" \in wrote
        /\ fs.classes_config # NoFile
        /\ ElementLines(Content(fs.classes_config)) =
               OneLinePerLeaf(SubstituteIn(
                   target_data_of(Content(fs.resource),
                                  cache_loads(Content(fs.cache))),
                   Content(fs.resource).kids))

(***************************************************************************)
(* Claims about the functions called on their own (SpecUtil).              *)
(***************************************************************************)
\* the key of the time of construction
TimestampKey == "maven.build.timestamp"

\* two objects have been built from the descriptor
BuiltTwice == prog = "construct" /\ Len(u_built) = 2

ElementsAt(list, idx) ==
    [ j \in 1 .. Cardinality(idx) |->
        list[CHOOSE i \in idx : Cardinality({ k \in idx : k < i }) = j - 1] ]

\* the lines of list that start with none of the delimiters, in order
LinesStartingWithNone(list, delimiters) ==
    ElementsAt(list, { i \in DOMAIN list :
        \A d \in delimiters :
            Len(list[i]) < Len(d) \/ \E j \in DOMAIN d : list[i][j] # d[j] })

\* every call of remove_comments on a list that is not empty returned the
\* lines of the list that do not start with its delimiter, in order
EachCallDropsItsComments ==
    \A c \in DOMAIN u_calls :
        u_calls[c].contents # << >> =>
            u_calls[c].ret = { LinesStartingWithNone(u_calls[c].contents,
                                                     { u_calls[c].delim }) }

\* remove_comments was applied for both delimiters to a list with lines
AppliedForBoth ==
    /\ prog = "remove_comments"
    /\ u_contents # << >>
    /\ \/ Len(u_calls) = 2
       \/ Len(u_calls) = 1 /\ u_calls[1].ret = {}

\* C19: remove_comments(contents, delim) returns, for every list that is
\* not empty, exactly the lines that do not start with delim, in their
\* order; applied for two delimiters, in either order, it gives the lines
\* that start with neither delimiter.
C19_RemoveComments ==
    prog = "remove_comments" =>
        /\ EachCallDropsItsComments
        /\ AppliedForBoth =>
               /\ Len(u_calls) = 2
               /\ u_calls[2].ret = { LinesStartingWithNone(u_contents,
                                        { u_delims[1], u_delims[2] }) }

\* C19, amended: as C19, the second part for the lists of which the first
\* application leaves at least one line; when the first application leaves
\* no line, the second one raises ValueError.
C19_RemoveCommentsLeavingLines ==
    prog = "remove_comments" =>
        /\ EachCallDropsItsComments
        /\ AppliedForBoth =>
               /\ Len(u_calls) = 2
               /\ IF u_calls[1].ret # { << >> }
                  THEN u_calls[2].ret = { LinesStartingWithNone(u_contents,
                                             { u_delims[1], u_delims[2] }) }
                  ELSE u_calls[2].ret = {}

C19_Witness ==
    /\ AppliedForBoth
    /\ Len(u_calls) = 2
    /\ u_calls[2].ret # {}
    /\ Len(u_calls[1].contents) > Len(u_calls[2].contents)
    /\ Len(u_calls[2].contents) > Len(Content(u_calls[2].ret))
    /\ Content(u_calls[2].ret) # << >>

\* remove_blanks was called and returned
BlanksRemoved ==
    prog = "remove_blanks" /\ u_calls # << >> /\ u_calls[1].ret # {}

\* C20: remove_blanks(contents, none) removes every empty or
\* whitespace-only string and keeps every other string, in order; the
\* None entries are removed when none=True and kept in place when
\* none=False.
C20_RemoveBlanks ==
    BlanksRemoved =>
        u_calls[1].ret =
            { ElementsAt(u_contents, { i \in DOMAIN u_contents :
                IF u_contents[i] = None
                THEN ~u_none
                ELSE \E j \in DOMAIN u_contents[i] :
                         u_contents[i][j] \notin { " ", "\n" } }) }

C20_Witness ==
    /\ BlanksRemoved
    /\ ~u_none
    /\ \E i, j, k \in DOMAIN u_contents :
           /\ u_contents[i] = None
           /\ u_contents[j] # None /\ u_contents[j] # << >>
           /\ \A n \in DOMAIN u_contents[j] : u_contents[j][n] = " "
           /\ u_contents[k] = << " ", "a", " " >>
    /\ Len(Content(u_calls[1].ret)) = 2

\* json_parser was called
Parsed == prog = "json_parser" /\ u_calls # << >>

\* the path is the empty path: None, '', or another object that is empty
\* or zero
EmptyPath(path) ==
    \/ path.type = "NoneType"
    \/ path.type = "str" /\ Len(path.val) = 0
    \/ path.type = "int" /\ path.val = << "0" >>
    \/ path.type = "list" /\ path.val = << "[", "]" >>

\* d is the dict standard JSON parsing gives for the members: the names in
\* the order they first appear, each with the value it is given last
IsParsed(d, members) ==
    LET names == { members[i][1] : i \in DOMAIN members }
        first(n) == CHOOSE i \in DOMAIN members :
                        /\ members[i][1] = n
                        /\ \A j \in 1 .. i - 1 : members[j][1] # n
        final(n) == CHOOSE i \in DOMAIN members :
                        /\ members[i][1] = n
                        /\ \A j \in i + 1 .. Len(members) : members[j][1] # n
    IN  /\ Len(d) = Cardinality(names)
        /\ \A i \in DOMAIN d :
              /\ d[i][1] \in names
              /\ d[i][2] = members[final(d[i][1])][2]
              /\ \A j \in 1 .. i - 1 : first(d[j][1]) < first(d[i][1])

ChildrenNamed(node, tag) ==
    SelectSeq(node.kids, LAMBDA kid : kid.name = tag)

\* the node reached from node by taking, for each tag of the path in turn,
\* the first direct child with the tag; {} when a tag has no such child
RECURSIVE ChildPath(_, _)
ChildPath(node, path) ==
    IF path = << >> THEN { node }
    ELSE IF ChildrenNamed(node, Head(path)) = << >> THEN {}
    ELSE ChildPath(ChildrenNamed(node, Head(path))[1], Tail(path))

\* the text of the node at the path, None when there is no such node
TextAt(node, path) ==
    IF ChildPath(node, path) = {} THEN None
    ELSE TagText(Content(ChildPath(node, path)))

\* C23: PomParser.get returns the node reached by taking at each step the
\* first direct child with the tag, None when a segment has no such child;
\* project.name, project.version and project.groupId of the namespace are
\* the texts of the project's own child elements, never those of elements
\* of the same name nested deeper and earlier in the document.
C23_FirstDirectChild ==
    prog = "construct" =>
        /\ \A c \in DOMAIN u_calls :
              u_calls[c].call = "get" =>
                  u_calls[c].ret = ChildPath(u_pom, u_calls[c].keys)
        /\ \A b \in DOMAIN u_built :
              /\ u_built[b].items["project.name"] =
                     TextAt(u_pom, << "project", "name" >>)
              /\ u_built[b].items["project.version"] =
                     TextAt(u_pom, << "project", "version" >>)
              /\ u_built[b].items["project.groupId"] =
                     TextAt(u_pom, << "project", "groupId" >>)

\* the node each key of the namespace is read from, as a path of tags from
\* the document
NodeOf ==
    [ k \in Range(PomKeys) \ { TimestampKey } |->
        CASE k = "project.name" -> << "project", "name" >>
          [] k = "project.version" -> << "project", "version" >>
          [] k = "project.url" -> << "project", "url" >>
          [] k = "project.groupId" -> << "project", "groupId" >>
          [] k = "project.artifactId" -> << "project", "artifactId" >>
          [] k = "project.inceptionYear" -> << "project", "inceptionYear" >>
          [] k = "project.developers[0].name" ->
                 << "project", "developers", "developer", "name" >>
          [] k = "project.developers[0].url" ->
                 << "project", "developers", "developer", "url" >>
          [] k = "project.licenses[0].name" ->
                 << "project", "licenses", "license", "name" >>
          [] k = "project.licenses[0].url" ->
                 << "project", "licenses", "license", "url" >>
          [] k = "package.licenseFile" ->
                 << "project", "properties", "package.licenseFile" >>
          [] k = "package.mainClass" ->
                 << "project", "properties", "package.mainClass" >> ]

\* C24: whichever of the nodes read are absent from the descriptor, the
\* project element itself included, constructing JMRepairer does not fail
\* and the namespace has its 13 keys, with None under each key whose node
\* is absent.
C24_AbsentNodesGiveNone ==
    prog = "construct" =>
        /\ \A c \in DOMAIN u_calls :
              u_calls[c].call = "JMRepairer" => u_calls[c].raised = "none"
        /\ \A b \in DOMAIN u_built :
              /\ DOMAIN u_built[b].items = Range(PomKeys)
              /\ Cardinality(DOMAIN u_built[b].items) = 13
              /\ \A k \in DOMAIN NodeOf :
                    ChildPath(u_pom, NodeOf[k]) = {} =>
                        u_built[b].items[k] = None

\* the run ended in DONE
Done == step = "exited" /\ exit_code = { 0 }

\* the run failed in another step than the one of the Makefile: the command
\* line, the POM, config.xml or the manifest stopped it
FailedElsewhere ==
    step = "exited" /\ last # "makefile" /\ exit_code # { 0 }

\* the caller ran the program MaxRuns times, and the last run ended in
\* ABORT_RESTART as well
RunsExhausted == AbortRestart /\ runs = MaxRuns

\* C29: when the program is run again after each ABORT_RESTART, on the same
\* POM and configuration, the run that follows an ABORT_RESTART does not
\* write the Makefile again, and after an ABORT_RESTART the program
\* eventually ends in DONE (unless another step than the one of the Makefile
\* fails, or the caller stops after MaxRuns runs)
C29_RestartReachesDone ==
    /\ [](runs >= 2 => "Makefile" \notin wrote)
    /\ (AbortRestart /\ runs < MaxRuns)
          ~> (Done \/ FailedElsewhere \/ RunsExhausted)

(***************************************************************************)
(* Claims about the substitution of config.xml (fix_config.py).            *)
(***************************************************************************)
\* str with every placeholder that is a key of data replaced by the value
\* of the key, as it is, in one pass from left to right
RECURSIVE InsertedVerbatim(_, _)
InsertedVerbatim(str, data) ==
    IF str = << >> THEN << >>
    ELSE LET m == MatchPlaceholder(str, "fixconfig")
         IN  IF m # {} /\ HasKey(data, Content(m))
             THEN ItemOf(data, Content(m))
                  \o InsertedVerbatim(SubSeq(str, Len(Content(m)) + 4, Len(str)),
                                      data)
             ELSE << Head(str) >> \o InsertedVerbatim(Tail(str), data)

\* sub occurs in str
Occurs(sub, str) ==
    \E i \in 1 .. Len(str) - Len(sub) + 1 :
        SubSeq(str, i, i + Len(sub) - 1) = sub

\* a placeholder of str has a value that holds a placeholder of str, or a
\* backslash
HoldsPlaceholderOrBackslash(str, data) ==
    LET keys == Range(FindPlaceholders(str))
    IN  \E k1 \in keys :
            \/ "\\" \in Range(ItemOf(data, k1))
            \/ \E k2 \in keys : Occurs(Placeholder(k2), ItemOf(data, k1))

\* the calls of the substitution whose placeholders are all keys of data
Substituted ==
    { c \in DOMAIN u_calls : prog = "substitute" /\ u_calls[c].ret.raised # "KeyError" }

\* C27: for a text whose placeholders are all keys of data, one of them
\* with a value that holds a placeholder of the text or a backslash, the
\* substitution gives the text with every placeholder replaced by its value
\* as it is: no value is changed, none is resolved again.
C27_ValuesInsertedVerbatim ==
    \A c \in Substituted :
        HoldsPlaceholderOrBackslash(u_calls[c].bs_data, u_data) =>
            /\ u_calls[c].ret.raised = "none"
            /\ u_calls[c].ret.value = InsertedVerbatim(u_calls[c].bs_data, u_data)

\* the dict d with its items in the order p
Reordered(d, p) == [ i \in DOMAIN d |-> d[p[i]] ]

\* C28: the text the substitution gives is the text every order of the
\* placeholder keys gives.
C28_SameTextInEveryOrder ==
    \A c \in Substituted :
        u_calls[c].ret.raised = "none" =>
            LET target_data == target_data_in(u_calls[c].bs_data, u_data)
            IN  \A p \in Permutations(DOMAIN target_data) :
                    SubstituteText(Reordered(target_data, p), u_calls[c].bs_data)
                        = u_calls[c].ret.value

====
